---- MODULE Spec2Model ----
(***************************************************************************)
(* A model of the depot/chunk download engine of gogdl                     *)
(* (src/gogdl/dl/managers/v2.py, V2Manager).                               *)
(*                                                                         *)
(* One coordinating thread (download) resolves the manifest and the        *)
(* secure links, submits one task per depot to a ThreadPoolExecutor and    *)
(* waits for the tasks; each pool worker runs _download_depot, which       *)
(* processes the depot's file items one after the other (_download_file),  *)
(* each file chunk by chunk (_download_chunk), each chunk endpoint by      *)
(* endpoint (_try_download_chunk_with_links).                              *)
(*                                                                         *)
(* A worker takes one step per I/O operation (the depot-manifest GET, the  *)
(* reading of a file item and the creation of its directory, one CDN GET,  *)
(* the open of the destination, the write with the chmod); the control     *)
(* flow between two I/O operations is part of the step that precedes it.   *)
(* What the remote side answers is drawn by the step that receives the     *)
(* answer.  The coordinating thread takes one step per request to the      *)
(* secure-link endpoint.                                                   *)
(*                                                                         *)
(* Spec is the whole run, with up to DefaultWorkers workers and MaxDepots  *)
(* depots; in it the CDN requests of one file are one step (they touch     *)
(* nothing that another thread reads).  SpecFetch is a run of one worker   *)
(* on one depot with every kind of secure-link answer, one step per CDN    *)
(* request, and keeps the requests of the current chunk in the frame.      *)
(* SpecPool is the run of the pool for any --workers-count and up to       *)
(* MaxPoolDepots depots.  SpecFile is a run of one worker on one depot     *)
(* with any --file-pattern and file items with and without the executable  *)
(* flag, and keeps the record of the last file in the frame.               *)
(* SpecDepots is a run over depots that declare languages and a bitness;   *)
(* SpecProducts a run over depots of the main game and a DLC with and      *)
(* without secure links of their own; SpecDepotFiles the run of a pool of  *)
(* two threads over depots of several files, with fairness; SpecTwice two  *)
(* runs, one after the other, into the same install directory;             *)
(* SpecEntries a run over listings with directory and link entries;        *)
(* SpecRun is Spec with threads that go on (weak fairness).                *)
(*                                                                         *)
(* SpecBuild, SpecInfo, SpecPath, SpecUrl and SpecSync are calls of one    *)
(* function each (the build selection of download(), Build.get_info,       *)
(* dl_utils.galaxy_path, the chunk URL of a secure link,                   *)
(* CloudStorageManager.sync of saves.py) for every input within the        *)
(* bounds.  SpecSize is a Build on which get_info is called again and      *)
(* again; SpecSave one CloudStorageManager.download_file call, attempt by  *)
(* attempt.                                                                *)
(***************************************************************************)
EXTENDS Integers, Sequences, FiniteSets, TLC

(***************************************************************************)
(* Bounds of the model.                                                    *)
(***************************************************************************)
\* depots of a manifest
MaxDepots == 2
\* file items of one depot listing
MaxItems == 2
\* chunks of one file item
MaxChunks == 2
\* endpoint descriptors of one secure-link answer
MaxLinks == 2
\* depots of a manifest in the runs of the pool
MaxPoolDepots == 5
\* the largest --workers-count in the runs of the pool
MaxWorkersCount == 5
\* languages of a depot
MaxLanguages == 2
\* depots of a manifest given to Build.get_info
MaxInfoDepots == 2

(***************************************************************************)
(* Program constants.                                                      *)
(***************************************************************************)
\* V2Manager.__init__(..., max_workers=2); --workers-count default=2;
\* self.allowed_threads = 2 when arguments has no workers_count
DefaultWorkers == 2
\* min(int(arguments.workers_count), 4)
MaxThreads == 4
\* response.status_code == 200
HttpOk == "200"
\* the status of an answer that is not 200 (the code tests only "== 200")
HttpNotOk == "404"
\* cdn_session.get raised: no answer at all
TransportError == "error"
\* chunk_info.get('compressedMd5', ... ''): a chunk without any hash field
NoHash == 0

\* arguments.id, and the product id of a DLC depot
GameId == "game"
DlcId == "dlc"
ProductIds == {GameId, DlcId}

\* a key that a JSON object does not have
Absent == "absent"

(***************************************************************************)
(* Bytes.  A byte is a number, a byte string a sequence, b'' is <<>>.  A   *)
(* zlib stream is recognised by its header byte: zlib.decompress raises    *)
(* zlib.error on anything that does not start with it, b'' included.       *)
(***************************************************************************)
ZlibMagic == 120

Compress(data) == <<ZlibMagic>> \o data

RECURSIVE Flatten(_)
Flatten(ss) == IF ss = <<>> THEN <<>> ELSE Head(ss) \o Flatten(Tail(ss))

\* the content hash of the i-th chunk of a file item (hashes are not 0)
ChunkHash(i) == i
\* what the CDN object with this hash decompresses to
ChunkBytes(hash) == <<hash>>
\* the kinds of body a CDN endpoint is observed to send with status 200:
\* the compressed chunk, the chunk uncompressed, nothing, compressed nothing
BodyKinds == {"zlib", "raw", "empty", "zlib of empty"}

BodyOf(kind, hash) ==
    CASE kind = "zlib" -> Compress(ChunkBytes(hash))
      [] kind = "raw" -> ChunkBytes(hash)
      [] kind = "empty" -> <<>>
      [] kind = "zlib of empty" -> Compress(<<>>)

Bodies(hash) == { BodyOf(kind, hash) : kind \in BodyKinds }

\* what a CDN endpoint can answer to a chunk request: 200 with a body of
\* some kind, another status, no answer (the request raises)
AnswerKinds == BodyKinds \cup {HttpNotOk, TransportError}

\* zlib.decompress(chunk_data), and the except zlib.error branch
ZlibError(body) == body = <<>> \/ Head(body) # ZlibMagic

Decompress(body) == Tail(body)

ChunkData(body) == IF ZlibError(body) THEN body ELSE Decompress(body)

(***************************************************************************)
(* The remote side.                                                        *)
(*                                                                         *)
(* A depot entry of the build manifest: its productId key (or none) and    *)
(* whether it has a manifest key.  Catalog manifests carry no link or url  *)
(* key, so depot_info.get('link', depot_info.get('url')) is the link that  *)
(* download() derives from the manifest key, or None.                      *)
(***************************************************************************)
DepotEntries == [productId : ProductIds \cup {Absent}, manifest : BOOLEAN]

\* _try_download_chunk_with_links builds a URL for a dict with url_format
\* and parameters, for a dict with url (shape "url") and for a non-dict;
\* any other dict is skipped without a request.  The lists of LinkLists
\* mix a shape of the first kind with the skipped one.
Shapes == {"url_format", "unknown"}

\* an endpoint descriptor: its shape, the CDN endpoint it names, and what
\* has been appended to its parameters' path since the endpoint sent it
Descriptor(shape, product, gen, i) ==
    [shape |-> shape, product |-> product, gen |-> gen, ep |-> i,
     path |-> <<>>]

\* the answers of the secure-link endpoint for one product and generation:
\* the urls arrays of at most MaxLinks descriptors, of any shapes
LinkLists(product, gen) ==
    UNION { { [i \in 1..m |-> Descriptor(sh[i], product, gen, i)] :
                sh \in [1..m -> Shapes] } : m \in 0..MaxLinks }

\* a chunk reference of a file item: its compressedMd5 (or none)
ChunkRefs(i) == { [md5 |-> ChunkHash(i)], [md5 |-> NoHash] }

\* the chunks arrays of a file item: at most MaxChunks references
ChunkLists ==
    UNION { { cs \in [1..m -> [md5 : 0..MaxChunks]] :
                \A i \in 1..m : cs[i] \in ChunkRefs(i) } : m \in 0..MaxChunks }

\* relative paths of file items; '' is a missing or empty path
Paths == {"a", "b"}

\* the characters of a path
PathText(path) == IF path = "a" THEN <<"x", "a">> ELSE <<"x", "b">>

\* the values of --file-pattern: none, one that every path contains, one
\* that one path contains, one that no path contains
FilePatterns == { <<>>, <<"x">>, <<"a">>, <<"a", "x">> }

\* pattern in text (str.__contains__)
Contains(text, pattern) ==
    \E i \in 1..(Len(text) - Len(pattern) + 1) :
        SubSeq(text, i, i + Len(pattern) - 1) = pattern

\* an entry of depot.items: a JSON object with path and chunks, or a value
\* that is no object (a string, null), on which .get raises AttributeError
\* executable: 'flags' holds 'executable'
FileItems ==
    [dict : {TRUE}, path : Paths \cup {""}, chunks : ChunkLists,
     executable : BOOLEAN]
    \cup { [dict |-> FALSE, path |-> "", chunks |-> <<>>,
            executable |-> FALSE] }

\* the items without the executable flag
PlainItems == { f \in FileItems : ~f.executable }

NoItem == [dict |-> TRUE, path |-> "", chunks |-> <<>>, executable |-> FALSE]

\* no file at a path (no byte of a file has this value)
NoFile == <<-1>>

(***************************************************************************)
(* State.                                                                  *)
(***************************************************************************)
VARIABLES
    arguments,                  \* the parsed command line (args.py)
    catalog,                    \* what the catalog holds: depots, links
    max_workers,                \* self.max_workers
    run,                        \* where download() is
    depot_files,                \* manifest_data['depots']
    secure_links_by_product,    \* product id -> generation-2 descriptors
    v1_secure_links_by_product, \* product id -> generation-1 descriptors
    futures,                    \* depot index -> state of its pool task
    yielded,                    \* the futures as_completed has handed out
    wk,                         \* pool worker -> its frame (see IdleWorker)
    fs,                         \* install directory: path -> bytes
    mode,                       \* install directory: path -> executable bit
    tree,                       \* install directory: directories and links
    warned,                     \* depot-level logger.warning: <<depot, text>>
    resolver,                   \* the get_secure_link call in progress
    calls,                      \* (product, generation) -> get_secure_link calls
    failed_files,               \* files logged as failed (kept with records)
    credentials,                \* auth_manager.get_credentials()
    cdn,                        \* the answers the CDN gives in this run
    before,                     \* the install directory the run started on
    input,                      \* the arguments of a function that is
    output                      \*   called on its own, and what it returns

vars == << arguments, catalog, max_workers, run, depot_files,
           secure_links_by_product, v1_secure_links_by_product, futures,
           yielded, wk, fs, mode, tree, warned, resolver, calls,
           failed_files, credentials, cdn, before, input, output >>

\* what no step of a run changes
config == << arguments, catalog, max_workers, credentials, cdn, before,
             input, output >>

\* the threads a pool can have: AndroidManager allows at most MaxThreads
Workers == 1..MaxThreads

\* a worker that runs no task; the fields of a running worker are the
\* locals of _download_depot, _download_file and _download_chunk:
\*   task      the depot index (0: none)      pc    the next I/O operation
\*   n, idx    len(items), index of item      item  file_info
\*   k         index of the chunk in progress
\*   tier, li  link_type and index of the secure link to request next
\*   file_data the bytes assembled so far
\* and what the last chunk fetch and the last file did (read by the
\* properties only):
\*   log       the CDN requests of the chunk fetch, in the order issued
\*   done, result   the chunk fetch has returned, and what it returned
\*   fetched   the chunk_data of the chunks fetched for the file
\*   written, wrote   open/write succeeded, and the bytes it wrote
\*   failed    the file ended with logger.error (a chunk, an OSError)
IdleWorker ==
    [task |-> 0, pc |-> "idle", n |-> 0, idx |-> 0, item |-> NoItem, k |-> 0,
     tier |-> "V2", li |-> 0, file_data |-> <<>>,
     log |-> <<>>, done |-> FALSE, result |-> <<>>, fetched |-> <<>>,
     written |-> FALSE, wrote |-> <<>>, failed |-> FALSE]

NoLinks == [p \in ProductIds |-> <<>>]

(***************************************************************************)
(* Secure-link selection (_download_chunk, lines 302-317).                 *)
(***************************************************************************)
\* self.secure_links = self.secure_links_by_product.get(self.game_id, [])
SecureLinks == secure_links_by_product[GameId]

\* depot_info.get('productId', self.game_id)
DepotProduct(d) ==
    IF depot_files[d].productId = Absent THEN GameId
    ELSE depot_files[d].productId

\* (a selection without the default)
LinksV2NoDefault(product) == secure_links_by_product[product]

\* self.secure_links_by_product.get(product_id, self.secure_links): a
\* product has a key only when its list is not empty (lines 84-85)
LinksV2(product) ==
    IF secure_links_by_product[product] # <<>>
    THEN secure_links_by_product[product]
    ELSE SecureLinks

\* self.v1_secure_links_by_product.get(product_id, [])
LinksV1(product) == v1_secure_links_by_product[product]

\* a descriptor for which a chunk URL is built; for any other dict the
\* loop logs "Unknown secure link structure" and continues without a request
Usable(link) == link.shape # "unknown"

\* the first descriptor at or after position from that gets a request,
\* 0 when the for loop ends without one
FirstUsable(links, from) ==
    IF \E i \in from..Len(links) : Usable(links[i])
    THEN CHOOSE i \in from..Len(links) :
            /\ Usable(links[i])
            /\ \A j \in from..(i - 1) : ~Usable(links[j])
    ELSE 0

(***************************************************************************)
(* Control flow of a worker between two I/O operations.  r is the frame    *)
(* of the worker, the result the frame at its next I/O operation.          *)
(***************************************************************************)
\* (a loop that stays on its item)
NextItemAgain(r) == [r EXCEPT !.pc = "item"]

\* the for loop over items (lines 151-154): the next item, or the return
NextItem(r) ==
    IF r.idx < r.n
    THEN [r EXCEPT !.pc = "item", !.idx = r.idx + 1]
    ELSE [r EXCEPT !.pc = "return"]

\* (a file that is written without the chunk that failed)
ChunkFailedWritten(r) ==
    [r EXCEPT !.pc = "write", !.log = IF r.done THEN <<>> ELSE r.log,
              !.done = TRUE, !.result = <<>>]

\* _download_chunk returns b'' (lines 294, 326); _download_file logs the
\* failed chunk and returns without writing (lines 197-199)
ChunkFailed(r) ==
    NextItem([r EXCEPT !.log = IF r.done THEN <<>> ELSE r.log,
                       !.done = TRUE, !.result = <<>>, !.failed = TRUE])

\* the V1 tier from position from (lines 316-322, 219): the next request,
\* or the failure of the chunk when the list is empty or at its end
EnterV1(r, from) ==
    LET i == FirstUsable(LinksV1(DepotProduct(r.task)), from)
    IN  IF i # 0 THEN [r EXCEPT !.pc = "try", !.tier = "V1", !.li = i]
        ELSE ChunkFailed(r)

\* the V2 tier from position from (lines 310-313, 219): the next request,
\* or the V1 tier when the list is empty or at its end
EnterV2(r, from) ==
    LET i == FirstUsable(LinksV2(DepotProduct(r.task)), from)
    IN  IF i # 0 THEN [r EXCEPT !.pc = "try", !.tier = "V2", !.li = i]
        ELSE EnterV1(r, 1)

\* (a fetch that builds a URL for a chunk without a hash)
StartChunkAnyHash(r) == EnterV2(r, 1)

\* _download_chunk for chunk r.k up to its first request (lines 290-311);
\* a chunk without a hash fails without any request
StartChunk(r) ==
    IF r.item.chunks[r.k].md5 = NoHash
    THEN ChunkFailed(r)
    ELSE EnterV2(r, 1)

\* (an assembly that puts the new chunk first)
AssemblePrepend(file_data, chunk_data) == chunk_data \o file_data

\* file_data += chunk_data (lines 194-196)
Assemble(file_data, chunk_data) == file_data \o chunk_data

\* _download_chunk returned chunk_data, which is not b''
ChunkDone(r, chunk_data) ==
    LET r1 == [r EXCEPT !.done = TRUE, !.result = chunk_data,
                        !.file_data = Assemble(r.file_data, chunk_data),
                        !.fetched = Append(r.fetched, chunk_data)]
    IN  IF r.k < Len(r.item.chunks)
        THEN StartChunk([r1 EXCEPT !.k = r.k + 1])
        ELSE [r1 EXCEPT !.pc = "write"]

\* the links of the tier the worker is in
TierLinks(r) ==
    IF r.tier = "V2" THEN LinksV2(DepotProduct(r.task))
    ELSE LinksV1(DepotProduct(r.task))

\* (requests sent through the session of the ApiHandler)
ApiHeaders ==
    {"User-Agent"} \cup (IF credentials # <<>> THEN {"Authorization"} ELSE {})

\* lines 254-262: the headers of cdn_session, a requests.Session made for
\* the request, with its headers updated with User-Agent only
CdnHeaders == {"User-Agent"}

\* a request: the descriptor asked, its tier and position, and the answer
Request(r, status, body) ==
    [tier |-> r.tier, li |-> r.li, link |-> TierLinks(r)[r.li],
     headers |-> CdnHeaders, status |-> status, body |-> body]

\* the log with one more request; the first request of a chunk starts it
Logged(r, status, body) ==
    [r EXCEPT !.log = Append(IF r.done THEN <<>> ELSE r.log,
                             Request(r, status, body)),
              !.done = FALSE]

\* (a fetch that asks the same endpoint again)
AfterFailureRetry(r) ==
    IF r.tier = "V2" THEN EnterV2(r, r.li) ELSE EnterV1(r, r.li)

\* the request failed: a status other than 200 (lines 277-279) or an
\* exception (lines 281-283); continue with the next link of the tier
AfterFailure(r) ==
    IF r.tier = "V2" THEN EnterV2(r, r.li + 1) ELSE EnterV1(r, r.li + 1)

\* (a fetch that takes an empty answer for the chunk)
AfterOkEmpty(r, body) == ChunkDone(r, ChunkData(body))

\* status 200 (lines 265-276): _try_download_chunk_with_links returns
\* chunk_data; _download_chunk returns it when it is not empty (lines
\* 312-313, 321-322), else goes on to the V1 tier, or fails after it
AfterOk(r, body) ==
    LET chunk_data == ChunkData(body)
    IN  IF chunk_data # <<>> THEN ChunkDone(r, chunk_data)
        ELSE IF r.tier = "V2" THEN EnterV1(r, 1)
        ELSE ChunkFailed(r)

(***************************************************************************)
(* The inputs of a run: the worker count the manager is built with, and    *)
(* what the catalog holds (the depots of the build manifest, and the urls  *)
(* the secure-link endpoint answers for each product and generation).      *)
(***************************************************************************)
DepotLists(entries) ==
    UNION { [1..m -> entries] : m \in 1..MaxDepots }

\* an answer of one descriptor (a dict with url)
OneLink(product, gen) == << Descriptor("url", product, gen, 1) >>

\* the secure-link endpoint answers one descriptor for every product
OneLinkEach(gen) == [p \in ProductIds |-> OneLink(p, gen)]

\* the catalogs of the runs: depots that name their product, and for
\* every product and generation one descriptor, or for all of them none
RunCatalogs ==
    [depots : DepotLists([productId : ProductIds, manifest : BOOLEAN]),
     links2 : {OneLinkEach(2)}, links1 : {OneLinkEach(1)}]
    \cup
    [depots : DepotLists([productId : ProductIds, manifest : BOOLEAN]),
     links2 : {NoLinks}, links1 : {NoLinks}]

(***************************************************************************)
(* Init: the manager is constructed, download() has not started.           *)
(***************************************************************************)
\* the generations secure links are asked for, and the calls of a run
Generations == {2, 1}
Pairs == ProductIds \X Generations

\* no get_secure_link call is in progress
NoCall == [at |-> "idle", product |-> GameId, gen |-> 2]

Constructed ==
    /\ run = "ResolvingManifest"
    /\ depot_files = <<>>
    /\ secure_links_by_product = NoLinks
    /\ v1_secure_links_by_product = NoLinks
    /\ futures = <<>>
    /\ yielded = {}
    /\ wk = [w \in Workers |-> IdleWorker]
    /\ fs = [p \in Paths |-> NoFile]
    /\ mode = [p \in Paths |-> FALSE]
    /\ tree = {}
    /\ warned = {}
    /\ resolver = NoCall
    /\ calls = [pair \in Pairs |-> 0]
    /\ failed_files = 0

\* AndroidManager.__init__ (manager.py lines 35-38): the threads allowed
AllowedThreads(args) ==
    IF args.workers_count = <<>> THEN DefaultWorkers
    ELSE IF args.workers_count[1] < MaxThreads THEN args.workers_count[1]
    ELSE MaxThreads

\* AndroidManager.download (manager.py lines 49-54) constructs the
\* V2Manager with max_workers=self.allowed_threads
Managed ==
    /\ max_workers = AllowedThreads(arguments)
    /\ Constructed

\* api.py lines 21-24: the credentials of a user who is logged in
Token == << "access_token" >>

\* the install directory of a first run: no run was before
NoRun ==
    [ran |-> FALSE, clean |-> FALSE, fs |-> [p \in Paths |-> NoFile],
     links |-> << NoLinks, NoLinks >>]

\* the first run of a user who is logged in, against a CDN that can give
\* any answer; no function is called on its own
Usual ==
    /\ credentials = Token
    /\ cdn = AnswerKinds
    /\ before = NoRun
    /\ input = <<>>
    /\ output = <<>>

\* the command lines of the runs: --workers-count 1 or 2, no --file-pattern
RunArguments ==
    [workers_count : { <<n>> : n \in 1..DefaultWorkers }, file_pattern : {<<>>}]

Init ==
    /\ arguments \in RunArguments
    /\ catalog \in RunCatalogs
    /\ Managed
    /\ Usual

(***************************************************************************)
(* download(): the coordinating thread.                                    *)
(***************************************************************************)
\* (a download() that goes on without the build manifest)
ResolveManifestGoesOn ==
    /\ run = "ResolvingManifest"
    /\ run' = "ResolvingSecureLinks"
    /\ \/ depot_files' = catalog.depots
       \/ UNCHANGED depot_files
    /\ tree' = tree \cup {"."}
    /\ UNCHANGED << config, secure_links_by_product,
                    v1_secure_links_by_product, futures, yielded, wk, fs,
                    mode, warned, resolver, calls, failed_files >>

\* lines 35-63: the build list, the build, its manifest and its depots.
\* No builds, a manifest that cannot be fetched, decompressed or parsed,
\* an install directory that cannot be made (line 54, "." in tree when it
\* is made) or a manifest without depots raise: download() fails.
ResolveManifest ==
    /\ run = "ResolvingManifest"
    /\ \/ /\ run' = "ResolvingSecureLinks"
          /\ depot_files' = catalog.depots
          /\ tree' = tree \cup {"."}
       \/ /\ run' = "Failed"
          /\ UNCHANGED << depot_files, tree >>
    /\ UNCHANGED << config, secure_links_by_product,
                    v1_secure_links_by_product, futures, yielded, wk, fs,
                    mode, warned, resolver, calls, failed_files >>

\* lines 68-73: the main game id plus the productId of every depot
DepotProductIds ==
    ({GameId} \cup { depot_files[d].productId : d \in DOMAIN depot_files })
        \ {Absent}

\* (a loop that asks generation 2 only)
NextCallsGen2Only ==
    { <<p, 2>> : p \in { q \in DepotProductIds : calls[<<q, 2>>] = 0 } }

\* (a loop that asks again for what it has)
NextCallsAgain == DepotProductIds \X Generations

\* lines 80-92: the calls the loop over product_ids can make next: for the
\* product it is at, generation 1 after generation 2; then generation 2
\* for any product not yet asked for (product_ids is a set)
NextCalls ==
    IF \E p \in DepotProductIds : calls[<<p, 2>>] > 0 /\ calls[<<p, 1>>] = 0
    THEN { <<p, 1>> : p \in { q \in DepotProductIds :
                                calls[<<q, 2>>] > 0 /\ calls[<<q, 1>>] = 0 } }
    ELSE { <<p, 2>> : p \in { q \in DepotProductIds : calls[<<q, 2>>] = 0 } }

\* js.get('urls', []) of the catalog's answer for a product and generation
Urls(product, gen) ==
    IF gen = 2 THEN catalog.links2[product] ELSE catalog.links1[product]

\* (a get_secure_link whose last frame asks again, and so without end)
AfterNoLinkAgain(at, status) ==
    IF at = "idle" THEN (IF status = HttpNotOk THEN "retry" ELSE "last")
    ELSE IF at = "retry" THEN "last"
    ELSE "retry"

\* dl_utils.get_secure_link after a request that was not answered 200, or
\* raised (lines 93-96, 101-105).  The first frame has the caller's
\* logger and calls itself again, without passing the logger on: in its
\* try block after a status other than 200 ("retry"), in its except
\* handler after an exception ("last").  A frame without logger that
\* fails raises AttributeError on logger.warning and, in its handler, on
\* logger.error; the first frame catches that in its try block and calls
\* again from its handler; from its handler the exception leaves it.
AfterNoLink(at, status) ==
    IF at = "idle" THEN (IF status = HttpNotOk THEN "retry" ELSE "last")
    ELSE IF at = "retry" THEN "last"
    ELSE "raised"

\* lines 80-92 with dl_utils.get_secure_link: one request to the
\* secure-link endpoint, for the call in progress or for the next call of
\* the loop.  An answer of 200 ends the call: its urls are stored under
\* the product id when the list is not empty (lines 83-85, 89-91).  An
\* exception that leaves get_secure_link leaves download().
ResolveSecureLinks ==
    /\ run = "ResolvingSecureLinks"
    /\ \E pair \in (IF resolver.at = "idle" THEN NextCalls
                    ELSE {<<resolver.product, resolver.gen>>}),
          status \in {HttpOk, HttpNotOk, TransportError} :
          /\ calls' = IF resolver.at = "idle"
                      THEN [calls EXCEPT ![pair] = @ + 1]
                      ELSE calls
          /\ IF status = HttpOk
             THEN /\ resolver' = NoCall
                  /\ secure_links_by_product' =
                        IF pair[2] = 2
                        THEN [secure_links_by_product EXCEPT
                                ![pair[1]] = Urls(pair[1], 2)]
                        ELSE secure_links_by_product
                  /\ v1_secure_links_by_product' =
                        IF pair[2] = 1
                        THEN [v1_secure_links_by_product EXCEPT
                                ![pair[1]] = Urls(pair[1], 1)]
                        ELSE v1_secure_links_by_product
                  /\ UNCHANGED run
             ELSE /\ resolver' = [at |-> AfterNoLink(resolver.at, status),
                                  product |-> pair[1], gen |-> pair[2]]
                  /\ run' = IF resolver'.at = "raised" THEN "Failed" ELSE run
                  /\ UNCHANGED << secure_links_by_product,
                                  v1_secure_links_by_product >>
    /\ UNCHANGED << config, tree, depot_files, futures, yielded, wk, fs, mode,
                    warned, failed_files >>

\* lines 95-118: the loop over product_ids has ended; the depots get their
\* links, the pool is made (ThreadPoolExecutor raises ValueError for
\* max_workers <= 0) and one task per depot is submitted
StartPool ==
    /\ run = "ResolvingSecureLinks"
    /\ resolver.at = "idle"
    /\ NextCalls = {}
    /\ IF max_workers > 0
       THEN /\ futures' = [d \in DOMAIN depot_files |-> "pending"]
            /\ run' = "Downloading"
       ELSE /\ run' = "Failed"
            /\ UNCHANGED futures
    /\ UNCHANGED << config, tree, depot_files, secure_links_by_product,
                    v1_secure_links_by_product, yielded, wk, fs, mode,
                    warned, resolver, calls, failed_files >>

\* what a task can raise: get_zlib_encoded's error for a depot manifest
\* that cannot be fetched, decompressed or parsed; the error of the
\* except handler of _download_file
Exceptions == {"ManifestError", "UnboundLocalError"}

Raised(d) == futures[d] \in Exceptions

Finished(d) == futures[d] = "done" \/ Raised(d)

\* (a loop that takes no notice of what a task raised)
AfterResultSwallowed(d, seen) ==
    IF seen = DOMAIN futures THEN "Completed" ELSE "Downloading"

\* future.result() for depot d (lines 121-125): it returns, or re-raises
\* what the task raised, which ends the loop; seen holds the futures
\* handed out so far, d included
AfterResult(d, seen) ==
    IF Raised(d) THEN "Aborting"
    ELSE IF seen = DOMAIN futures THEN "Completed"
    ELSE "Downloading"

\* lines 120-127: as_completed hands out a finished future; after the
\* last one download() logs "Download completed successfully" and returns
AsCompleted ==
    /\ run = "Downloading"
    /\ \E d \in DOMAIN futures \ yielded :
          /\ Finished(d)
          /\ yielded' = yielded \cup {d}
          /\ run' = AfterResult(d, yielded')
    /\ UNCHANGED << config, tree, depot_files, secure_links_by_product,
                    v1_secure_links_by_product, futures, wk, fs, mode,
                    warned, resolver, calls, failed_files >>

\* (an exit of the with block that waits for no task: shutdown(wait=False))
ExitPoolNoWait ==
    /\ run = "Aborting"
    /\ run' = "Failed"
    /\ UNCHANGED << config, tree, depot_files, secure_links_by_product,
                    v1_secure_links_by_product, futures, yielded, wk, fs,
                    mode, warned, resolver, calls, failed_files >>

\* lines 113, 125, 129-131: the raise leaves the with block, whose exit is
\* executor.shutdown(wait=True): it returns when every submitted task has
\* run; then download() raises to its caller
ExitPool ==
    /\ run = "Aborting"
    /\ \A d \in DOMAIN futures : Finished(d)
    /\ run' = "Failed"
    /\ UNCHANGED << config, tree, depot_files, secure_links_by_product,
                    v1_secure_links_by_product, futures, yielded, wk, fs,
                    mode, warned, resolver, calls, failed_files >>

(***************************************************************************)
(* The pool workers.                                                       *)
(***************************************************************************)
\* (a pool that starts a thread for every task)
CanTakeUnbounded(w, d) ==
    /\ wk[w].pc = "idle"
    /\ \A v \in 1..(w - 1) : wk[v].pc # "idle"
    /\ d \in DOMAIN futures
    /\ futures[d] = "pending"
    /\ \A e \in 1..(d - 1) : futures[e] # "pending"

\* (a pool whose free threads join a task that runs)
CanTakeRunning(w, d) ==
    /\ w <= max_workers
    /\ wk[w].pc = "idle"
    /\ \A v \in 1..(w - 1) : wk[v].pc # "idle"
    /\ d \in DOMAIN futures
    /\ futures[d] \in {"pending", "running"}

\* the pool has max_workers threads; a free thread takes the oldest task
\* of the queue (the threads are alike: the free one of lowest number)
CanTake(w, d) ==
    /\ w <= max_workers
    /\ wk[w].pc = "idle"
    /\ \A v \in 1..(w - 1) : wk[v].pc # "idle"
    /\ d \in DOMAIN futures
    /\ futures[d] = "pending"
    /\ \A e \in 1..(d - 1) : futures[e] # "pending"

\* the task of worker w raises: the exception is stored in its future
Raise(w, exception) ==
    /\ futures' = [futures EXCEPT ![wk[w].task] = exception]
    /\ wk' = [wk EXCEPT ![w] = IdleWorker]

\* the task of worker w returns
Return(w) ==
    /\ futures' = [futures EXCEPT ![wk[w].task] = "done"]
    /\ wk' = [wk EXCEPT ![w] = IdleWorker]

\* lines 133-141: _download_depot starts.  A depot without link is
\* logged ("No URL found for depot") and the task returns.
StartDepot(w) ==
    /\ run \in {"Downloading", "Aborting"}
    /\ \E d \in DOMAIN futures :
          /\ CanTake(w, d)
          /\ IF depot_files[d].manifest
             THEN /\ futures' = [futures EXCEPT ![d] = "running"]
                  /\ wk' = [wk EXCEPT ![w] =
                              [IdleWorker EXCEPT !.task = d, !.pc = "manifest"]]
                  /\ UNCHANGED warned
             ELSE /\ futures' = [futures EXCEPT ![d] = "done"]
                  /\ warned' = warned \cup { <<d, "No URL found">> }
                  /\ UNCHANGED wk
    /\ UNCHANGED << config, tree, run, depot_files,
                    secure_links_by_product, v1_secure_links_by_product,
                    yielded, fs, mode, resolver, calls, failed_files >>

\* (a task that raises for a payload without depot.items)
UnexpectedRaises(w) ==
    /\ Raise(w, "ManifestError")
    /\ warned' = warned \cup { <<wk[w].task, "Unexpected depot structure">> }

\* lines 147, 155-156: the payload has no depot.items: it is logged
\* ("Unexpected depot structure") and the task returns
Unexpected(w) ==
    /\ Return(w)
    /\ warned' = warned \cup { <<wk[w].task, "Unexpected depot structure">> }

\* lines 143-160: the depot manifest is fetched, decompressed and parsed
\* (get_zlib_encoded raises on any failure, and _download_depot re-raises);
\* a payload of unexpected structure; or a listing of n items (n one of
\* sizes), over which the loop starts
FetchDepotManifest(w, sizes) ==
    /\ wk[w].pc = "manifest"
    /\ \/ Raise(w, "ManifestError") /\ UNCHANGED warned
       \/ Unexpected(w)
       \/ \E n \in sizes :
             /\ IF n = 0 THEN Return(w)
                ELSE /\ wk' = [wk EXCEPT ![w] =
                                 [wk[w] EXCEPT !.pc = "item", !.n = n,
                                               !.idx = 1]]
                     /\ UNCHANGED futures
             /\ UNCHANGED warned
    /\ UNCHANGED << config, tree, run, depot_files,
                    secure_links_by_product, v1_secure_links_by_product,
                    yielded, fs, mode, resolver, calls, failed_files >>

\* the frame at the start of _download_file for file_info
FileFrame(r, file_info) ==
    [r EXCEPT !.item = file_info, !.k = 0, !.file_data = <<>>,
              !.log = <<>>, !.done = FALSE, !.result = <<>>,
              !.fetched = <<>>, !.written = FALSE, !.wrote = <<>>,
              !.failed = FALSE]

\* (a filter that lets every path through)
MatchesAll(pattern, path) == TRUE

\* lines 170-172: no --file-pattern, or the pattern is in the path
Matches(pattern, path) ==
    \/ pattern = <<>>
    \/ Contains(PathText(path), pattern)

\* (a file step that opens the destination of an item without chunks)
FirstFrameCreatesEmpty(r, file_info, makedirs, pattern) ==
    IF file_info.path = "" \/ ~Matches(pattern, file_info.path)
    THEN NextItem(FileFrame(r, file_info))
    ELSE IF makedirs = "OSError"
    THEN NextItem([FileFrame(r, file_info) EXCEPT !.failed = TRUE])
    ELSE IF file_info.chunks = <<>>
    THEN [FileFrame(r, file_info) EXCEPT !.pc = "write"]
    ELSE StartChunk([FileFrame(r, file_info) EXCEPT !.k = 1])

\* lines 165-185, 211-213: _download_file for an item that is a JSON
\* object, up to its first request, with pattern for --file-pattern.  An
\* empty path and a path without the pattern end the file; so do a directory that cannot be created (the
\* OSError is caught and logged) and, after that, an empty chunk list.
FirstFrame(r, file_info, makedirs, pattern) ==
    IF file_info.path = "" \/ ~Matches(pattern, file_info.path)
    THEN NextItem(FileFrame(r, file_info))
    ELSE IF makedirs = "OSError"
    THEN NextItem([FileFrame(r, file_info) EXCEPT !.failed = TRUE])
    ELSE IF file_info.chunks = <<>>
    THEN NextItem(FileFrame(r, file_info))
    ELSE StartChunk([FileFrame(r, file_info) EXCEPT !.k = 1])

\* lines 219-283: one pass of the loop over the secure links: the chunk
\* URL is requested; the answer is 200 with some body, another status, or
\* an exception.  The frames after each possible answer.
Answers(r) ==
    { AfterOk(Logged(r, HttpOk, body), body) :
        body \in { BodyOf(kind, r.item.chunks[r.k].md5) :
                     kind \in BodyKinds \cap cdn } }
    \cup { AfterFailure(Logged(r, status, <<>>)) :
             status \in {HttpNotOk, TransportError} \cap cdn }

\* a frame without the record of the last chunk fetch
Unlogged(r) == [r EXCEPT !.log = <<>>, !.done = FALSE, !.result = <<>>]

\* a frame without the record of the last chunk fetch and the last file
Tidy(r) ==
    IF r.pc \in {"write", "writing"}
    THEN [Unlogged(r) EXCEPT !.failed = FALSE]
    ELSE [IdleWorker EXCEPT !.task = r.task, !.pc = r.pc, !.n = r.n,
                            !.idx = r.idx]

\* the frame as the run keeps it: tidied, or with its records
Kept(tidy, r) == IF tidy THEN Tidy(r) ELSE r

\* the frames in which the requests of a file can end, from frame r on
RECURSIVE Finals(_)
Finals(r) ==
    IF r.pc # "try" THEN {Unlogged(r)}
    ELSE UNION { Finals(s) : s \in { Unlogged(a) : a \in Answers(r) } }

\* the file of frame r has ended (the worker is at the next item or at
\* the return) with a logged failure: 1, else 0
FileFailed(r) == IF r.pc \in {"item", "return"} /\ r.failed THEN 1 ELSE 0

\* the count of failed files where the run keeps records
Counted(tidy, r) == IF tidy THEN failed_files ELSE failed_files + FileFailed(r)

\* (a URL built in the cached descriptor itself)
BuildUrlInPlace(link, chunk_md5) ==
    LET endpoint == [link EXCEPT !.path = Append(@, chunk_md5)]
    IN  [url |-> endpoint, cached |-> endpoint]

\* lines 222-250: the chunk URL of a descriptor.  endpoint is a copy of
\* the descriptor with a copy of its parameters; the chunk path is
\* appended to the copy's path, and the URL is made of the copy.  url is
\* what is requested, cached is the descriptor as the map holds it after.
BuildUrl(link, chunk_md5) ==
    LET endpoint == [link EXCEPT !.path = Append(@, chunk_md5)]
    IN  [url |-> endpoint, cached |-> link]

\* the key under which the map holds the generation-2 list of a product
KeyV2(product) ==
    IF secure_links_by_product[product] # <<>> THEN product ELSE GameId

\* os.path.dirname of the destination of a path: the directory that a
\* path with a trailing separator names, else the parent, which for the
\* paths of the listings is the install directory
Dirname(path) == IF path = "e/" THEN "e" ELSE "."

\* lines 165-175: the directories after os.makedirs(dirname, exist_ok=True)
\* for an item that has a path with the pattern
MakeDirs(file_info, makedirs, pattern) ==
    IF /\ file_info.path # ""
       /\ Matches(pattern, file_info.path)
       /\ makedirs = "ok"
    THEN tree \cup {Dirname(file_info.path)}
    ELSE tree

\* _download_file starts on the next item of the listing.  An item that
\* is no JSON object makes file_info.get raise before file_path is bound,
\* so the handler's own f"...{file_path}..." (line 212) raises out of
\* _download_file, and _download_depot re-raises (lines 158-160).
BeginFile(w, items) ==
    /\ wk[w].pc = "item"
    /\ \E file_info \in items, makedirs \in {"ok", "OSError"} :
          IF ~file_info.dict
          THEN Raise(w, "UnboundLocalError")
               /\ UNCHANGED << failed_files, tree >>
          ELSE /\ wk' = [wk EXCEPT ![w] =
                           FirstFrame(wk[w], file_info, makedirs,
                                      arguments.file_pattern)]
               /\ failed_files' = Counted(FALSE, wk'[w])
               /\ tree' = MakeDirs(file_info, makedirs,
                                   arguments.file_pattern)
               /\ UNCHANGED futures
    /\ UNCHANGED << config, run, depot_files,
                    secure_links_by_product, v1_secure_links_by_product,
                    yielded, fs, mode, warned, resolver, calls >>

\* one request of a chunk fetch and its answer
Attempt(w) ==
    /\ wk[w].pc = "try"
    /\ \E s \in Answers(wk[w]) :
          /\ wk' = [wk EXCEPT ![w] = s]
          /\ failed_files' = Counted(FALSE, s)
    /\ LET r == wk[w]
           product == DepotProduct(r.task)
           built == BuildUrl(TierLinks(r)[r.li], r.item.chunks[r.k].md5)
       IN  /\ secure_links_by_product' =
                 IF r.tier = "V2"
                 THEN [secure_links_by_product EXCEPT
                         ![KeyV2(product)][r.li] = built.cached]
                 ELSE secure_links_by_product
           /\ v1_secure_links_by_product' =
                 IF r.tier = "V1"
                 THEN [v1_secure_links_by_product EXCEPT
                         ![product][r.li] = built.cached]
                 ELSE v1_secure_links_by_product
    /\ UNCHANGED << config, tree, run, depot_files, futures, yielded, fs, mode,
                    warned, resolver, calls >>

\* _download_file from the next item of the listing to the open of the
\* destination (or to the end of the file, when it is skipped or a chunk
\* fails): all its requests.  Between these points a worker reads and
\* writes nothing but its own frame: the URLs are built on copies.
DownloadFile(w, items, tidy) ==
    /\ wk[w].pc = "item"
    /\ \E file_info \in items, makedirs \in {"ok", "OSError"} :
          IF ~file_info.dict
          THEN Raise(w, "UnboundLocalError")
               /\ UNCHANGED << failed_files, tree >>
          ELSE /\ \E s \in Finals(FirstFrame(wk[w], file_info, makedirs,
                                               arguments.file_pattern)) :
                     /\ wk' = [wk EXCEPT ![w] = Kept(tidy, s)]
                     /\ failed_files' = Counted(tidy, s)
               /\ tree' = MakeDirs(file_info, makedirs,
                                   arguments.file_pattern)
               /\ UNCHANGED futures
    /\ UNCHANGED << config, run, depot_files,
                    secure_links_by_product, v1_secure_links_by_product,
                    yielded, fs, mode, warned, resolver, calls >>

\* line 202: open(full_path, 'wb') creates the file, or truncates the one
\* that is there (its mode stays); an OSError is caught and logged (lines
\* 211-213) and the next item follows
OpenFile(w, tidy) ==
    /\ wk[w].pc = "write"
    /\ \/ /\ fs' = [fs EXCEPT ![wk[w].item.path] = <<>>]
          /\ wk' = [wk EXCEPT ![w].pc = "writing"]
          /\ UNCHANGED failed_files
       \/ LET s == NextItem([wk[w] EXCEPT !.failed = TRUE])
          IN  /\ wk' = [wk EXCEPT ![w] = Kept(tidy, s)]
              /\ failed_files' = Counted(tidy, s)
              /\ UNCHANGED fs
    /\ UNCHANGED << config, tree, run, depot_files,
                    secure_links_by_product, v1_secure_links_by_product,
                    futures, yielded, mode, warned, resolver, calls >>

\* the frame after f.write and os.chmod for the flagged file (lines
\* 203-213): every exception is caught and logged, the next item follows
AfterWrite(r, written, failed) ==
    NextItem([r EXCEPT !.written = written,
                       !.wrote = IF written THEN r.file_data ELSE <<>>,
                       !.failed = failed])

\* lines 203-213: f.write(file_data) puts all bytes into the file, or
\* raises OSError (no space) with the first j of them in it; when all are
\* in and the item has the executable flag, os.chmod sets the mode, or
\* raises OSError
WriteFile(w, tidy) ==
    /\ wk[w].pc = "writing"
    /\ \E j \in 0..Len(wk[w].file_data), chmod \in {"ok", "OSError"} :
          LET r == wk[w]
              all == j = Len(r.file_data)
              s == AfterWrite(r, all, ~all \/ (r.item.executable
                                               /\ chmod = "OSError"))
          IN  /\ fs' = [fs EXCEPT ![r.item.path] = SubSeq(r.file_data, 1, j)]
              /\ mode' = IF all /\ r.item.executable /\ chmod = "ok"
                         THEN [mode EXCEPT ![r.item.path] = TRUE]
                         ELSE mode
              /\ wk' = [wk EXCEPT ![w] = Kept(tidy, s)]
              /\ failed_files' = Counted(tidy, s)
    /\ UNCHANGED << config, tree, run, depot_files,
                    secure_links_by_product, v1_secure_links_by_product,
                    futures, yielded, warned, resolver, calls >>

\* lines 127-131: what download() gives its caller in state r of the run:
\* it returns nothing, or raises
Outcome(r) ==
    IF r = "Completed" THEN "returns None"
    ELSE IF r = "Failed" THEN "raises"
    ELSE "none"

\* lines 151-156: the loop over the items has ended
EndDepot(w) ==
    /\ wk[w].pc = "return"
    /\ Return(w)
    /\ UNCHANGED << config, tree, run, depot_files,
                    secure_links_by_product, v1_secure_links_by_product,
                    yielded, fs, mode, warned, resolver, calls,
                    failed_files >>

(***************************************************************************)
(* The run: every worker step is a depot-manifest request, the requests    *)
(* of one file, or one file write.                                         *)
(***************************************************************************)
Next ==
    \/ ResolveManifest
    \/ ResolveSecureLinks
    \/ StartPool
    \/ AsCompleted
    \/ ExitPool
    \/ \E w \in Workers : StartDepot(w)
    \/ \E w \in Workers : FetchDepotManifest(w, 0..MaxItems)
    \/ \E w \in Workers : DownloadFile(w, PlainItems, TRUE)
    \/ \E w \in Workers : OpenFile(w, TRUE)
    \/ \E w \in Workers : WriteFile(w, TRUE)
    \/ \E w \in Workers : EndDepot(w)

Spec == Init /\ [][Next]_vars

\* the whole run with threads that go on: download() and every worker of
\* the pool take the step they can take, since every request is answered
\* in the end
SpecRun == Init /\ [][Next]_vars /\ WF_vars(Next)

(***************************************************************************)
(* The chunk fetch, request by request: one worker, one depot, and every   *)
(* answer of the secure-link endpoint of at most MaxLinks descriptors of   *)
(* any shape.                                                              *)
(***************************************************************************)
\* the product whose links the chunks of a depot entry use
EntryProduct(entry) ==
    IF entry.productId = Absent THEN GameId ELSE entry.productId

\* one depot; for its product any answer for either generation; for the
\* main game, when the depot is of a DLC, an answer of generation 2 (the
\* default of the depot's own generation-2 links)
FetchCatalogs ==
    UNION { UNION { {
        [depots |-> << entry >>,
         links2 |-> [p \in ProductIds |->
                        IF p = EntryProduct(entry) THEN l2
                        ELSE IF p = GameId THEN g2 ELSE <<>>],
         links1 |-> [p \in ProductIds |->
                        IF p = EntryProduct(entry) THEN l1 ELSE <<>>]] :
              g2 \in {<<>>, OneLink(GameId, 2)} } :
           l2 \in LinkLists(EntryProduct(entry), 2),
           l1 \in LinkLists(EntryProduct(entry), 1) } :
        entry \in DepotEntries }

\* the file items of the depot: any chunks, one path
FetchItems == { f \in PlainItems : f.path \in {"", "a"} }

\* one worker, no --file-pattern
FetchArguments == [workers_count : {<<1>>}, file_pattern : {<<>>}]

InitFetch ==
    /\ arguments \in FetchArguments
    /\ catalog \in FetchCatalogs
    /\ Managed
    /\ Usual

NextFetch ==
    \/ ResolveManifest
    \/ ResolveSecureLinks
    \/ StartPool
    \/ AsCompleted
    \/ ExitPool
    \/ \E w \in Workers : StartDepot(w)
    \/ \E w \in Workers : FetchDepotManifest(w, 0..MaxItems)
    \/ \E w \in Workers : BeginFile(w, FetchItems)
    \/ \E w \in Workers : Attempt(w)
    \/ \E w \in Workers : OpenFile(w, FALSE)
    \/ \E w \in Workers : WriteFile(w, FALSE)
    \/ \E w \in Workers : EndDepot(w)

SpecFetch == InitFetch /\ [][NextFetch]_vars

(***************************************************************************)
(* The pool: any --workers-count or none, up to MaxPoolDepots depots with  *)
(* a manifest and a listing of one item without a path (it is skipped),    *)
(* no links.                                                               *)
(***************************************************************************)
PoolCatalogs ==
    [depots : UNION { [1..m -> [productId : {GameId}, manifest : {TRUE}]] :
                        m \in 1..MaxPoolDepots },
     links2 : {NoLinks}, links1 : {NoLinks}]

PoolItems == { f \in PlainItems : f.dict /\ f.path = "" }

\* args.py line 42, manager.py lines 34-38: no attribute, or an integer:
\* none, one, more than MaxThreads
PoolArguments ==
    [workers_count : {<<>>} \cup { <<n>> : n \in {0, 1, MaxWorkersCount} },
     file_pattern : {<<>>}]

InitPool ==
    /\ arguments \in PoolArguments
    /\ catalog \in PoolCatalogs
    /\ Managed
    /\ Usual

NextPool ==
    \/ ResolveManifest
    \/ ResolveSecureLinks
    \/ StartPool
    \/ AsCompleted
    \/ ExitPool
    \/ \E w \in Workers : StartDepot(w)
    \/ \E w \in Workers : FetchDepotManifest(w, {1})
    \/ \E w \in Workers : DownloadFile(w, PoolItems, TRUE)
    \/ \E w \in Workers : EndDepot(w)

SpecPool == InitPool /\ [][NextPool]_vars

(***************************************************************************)
(* The files of a depot: one worker, one depot of the main game, one       *)
(* descriptor of generation 2, any --file-pattern, any file items; the     *)
(* frame keeps the record of the last file, and failed files are counted.  *)
(***************************************************************************)
FileCatalogs ==
    [depots : { << [productId |-> GameId, manifest |-> TRUE] >> },
     links2 : {OneLinkEach(2)}, links1 : {NoLinks}]

FileArguments == [workers_count : {<<1>>}, file_pattern : FilePatterns]

InitFile ==
    /\ arguments \in FileArguments
    /\ catalog \in FileCatalogs
    /\ Managed
    /\ Usual

NextFile ==
    \/ ResolveManifest
    \/ ResolveSecureLinks
    \/ StartPool
    \/ AsCompleted
    \/ ExitPool
    \/ \E w \in Workers : StartDepot(w)
    \/ \E w \in Workers : FetchDepotManifest(w, 0..MaxItems)
    \/ \E w \in Workers : DownloadFile(w, FileItems, FALSE)
    \/ \E w \in Workers : OpenFile(w, FALSE)
    \/ \E w \in Workers : WriteFile(w, FALSE)
    \/ \E w \in Workers : EndDepot(w)

SpecFile == InitFile /\ [][NextFile]_vars

(***************************************************************************)
(* The depots of a manifest and their targets (dl/objects/v2.py).          *)
(***************************************************************************)
\* language codes; "*" in a depot is every language
Languages == {"en-US", "de-DE"}

\* osBitness of a depot: None, or the bitness
NoBitness == 0

Bitnesses == {32, 64}

\* the languages a depot can declare
LanguageLists ==
    UNION { [1..m -> Languages \cup {"*"}] : m \in 0..MaxLanguages }

\* (a loop that keeps the status of the last language)
CheckLanguageLast(languages, target_lang) ==
    /\ languages # <<>>
    /\ \/ languages[Len(languages)] = "*"
       \/ languages[Len(languages)] = target_lang

\* Depot.check_language (lines 43-52): the loop over the languages ends
\* at the first that is "*" or the target
RECURSIVE CheckLanguage(_, _)
CheckLanguage(languages, target_lang) ==
    IF languages = <<>> THEN FALSE
    ELSE IF Head(languages) = "*" \/ target_lang = Head(languages) THEN TRUE
    ELSE CheckLanguage(Tail(languages), target_lang)

\* Depot.check_bitness (lines 54-55)
CheckBitness(osBitness, bitness) ==
    osBitness = NoBitness \/ osBitness = bitness

\* Build.get_info (lines 91-101): the depots of the manifest that pass
\* both checks, appended in the order of the manifest
RECURSIVE GetInfo(_, _, _)
GetInfo(depots, target_lang, bitness) ==
    IF depots = <<>> THEN <<>>
    ELSE IF ~CheckLanguage(Head(depots).languages, target_lang)
    THEN GetInfo(Tail(depots), target_lang, bitness)
    ELSE IF ~CheckBitness(Head(depots).osBitness, bitness)
    THEN GetInfo(Tail(depots), target_lang, bitness)
    ELSE << Head(depots) >> \o GetInfo(Tail(depots), target_lang, bitness)

(***************************************************************************)
(* The depots of a run: one worker, one or two depots of the main game     *)
(* that declare a language and a bitness, listings without items.          *)
(***************************************************************************)
DepotCatalogs ==
    [depots : DepotLists([productId : {GameId}, manifest : {TRUE},
                          languages : { <<l>> : l \in Languages \cup {"*"} },
                          osBitness : Bitnesses \cup {NoBitness}]),
     links2 : {NoLinks}, links1 : {NoLinks}]

InitDepots ==
    /\ arguments \in FetchArguments
    /\ catalog \in DepotCatalogs
    /\ Managed
    /\ Usual

NextDepots ==
    \/ ResolveManifest
    \/ ResolveSecureLinks
    \/ StartPool
    \/ AsCompleted
    \/ ExitPool
    \/ \E w \in Workers : StartDepot(w)
    \/ \E w \in Workers : FetchDepotManifest(w, {0})

SpecDepots == InitDepots /\ [][NextDepots]_vars

(***************************************************************************)
(* The products of a run: one worker, one or two depots of the main game   *)
(* or a DLC, for each product and generation one descriptor or none, and a *)
(* CDN that answers every request with the compressed chunk, or every      *)
(* request with 404; a depot lists one file, and the frame keeps the       *)
(* record of the last file.                                                *)
(***************************************************************************)
\* one descriptor for the products of a set, none for the others
LinksOf(products, gen) ==
    [p \in ProductIds |-> IF p \in products THEN OneLink(p, gen) ELSE <<>>]

ProductCatalogs ==
    [depots : DepotLists([productId : ProductIds, manifest : {TRUE}]),
     links2 : { LinksOf(ps, 2) : ps \in SUBSET ProductIds },
     links1 : { LinksOf(ps, 1) : ps \in SUBSET ProductIds }]

InitProducts ==
    /\ arguments \in FetchArguments
    /\ catalog \in ProductCatalogs
    /\ Managed
    /\ credentials = Token
    /\ cdn \in { {"zlib"}, {HttpNotOk} }
    /\ before = NoRun
    /\ input = <<>>
    /\ output = <<>>

NextProducts ==
    \/ ResolveManifest
    \/ ResolveSecureLinks
    \/ StartPool
    \/ AsCompleted
    \/ ExitPool
    \/ \E w \in Workers : StartDepot(w)
    \/ \E w \in Workers : FetchDepotManifest(w, {1})
    \/ \E w \in Workers : DownloadFile(w, PlainItems, FALSE)
    \/ \E w \in Workers : OpenFile(w, FALSE)
    \/ \E w \in Workers : WriteFile(w, FALSE)
    \/ \E w \in Workers : EndDepot(w)

SpecProducts == InitProducts /\ [][NextProducts]_vars

(***************************************************************************)
(* Functions called on their own: input holds the arguments of one call,   *)
(* output what the call returned, once it has.                             *)
(***************************************************************************)
\* before the call
Called(inputs) ==
    /\ arguments \in FetchArguments
    /\ catalog \in DepotCatalogs
    /\ Len(catalog.depots) = 1
    /\ catalog.depots[1].languages = <<"*">>
    /\ catalog.depots[1].osBitness = NoBitness
    /\ Managed
    /\ credentials = Token
    /\ cdn = AnswerKinds
    /\ before = NoRun
    /\ input \in inputs
    /\ output = <<>>

\* the call returns
Returns(value) ==
    /\ output = <<>>
    /\ output' = << value >>
    /\ UNCHANGED << arguments, catalog, max_workers, run, depot_files,
                    secure_links_by_product, v1_secure_links_by_product,
                    futures, yielded, wk, fs, mode, tree, warned, resolver,
                    calls, failed_files, credentials, cdn, before, input >>

(***************************************************************************)
(* Build.get_info (dl/objects/v2.py) for a manifest that was fetched.      *)
(***************************************************************************)
\* the depots of a manifest that get_info has fetched: manifest tells
\* them apart
InfoDepots ==
    UNION { { ds \in [1..m -> [languages : LanguageLists,
                               osBitness : Bitnesses \cup {NoBitness},
                               manifest : 1..MaxInfoDepots]] :
                \A i \in 1..m : ds[i].manifest = i } : m \in 0..MaxInfoDepots }

InitInfo ==
    Called([depots : InfoDepots, target_lang : Languages, bitness : Bitnesses])

NextInfo == Returns(GetInfo(input.depots, input.target_lang, input.bitness))

SpecInfo == InitInfo /\ [][NextInfo]_vars

(***************************************************************************)
(* Build.total_size (dl/objects/v2.py): get_info called again and again on *)
(* one Build, for a manifest that is fetched every time.  output holds     *)
(* total_size as it is after each call.                                    *)
(***************************************************************************)
\* get_info calls on one Build
MaxInfoCalls == 2
\* the largest size of a depot
MaxDepotSize == 2

\* the depots of the manifest: a language or none, a bitness or none, a
\* size or none; manifest tells them apart
SizedDepots ==
    UNION { { ds \in [1..m -> [languages : {<<>>} \cup { <<l>> : l \in Languages \cup {"*"} },
                               osBitness : Bitnesses \cup {NoBitness},
                               size : {<<>>} \cup { <<n>> : n \in 1..MaxDepotSize },
                               manifest : 1..MaxInfoDepots]] :
                \A i \in 1..m : ds[i].manifest = i } : m \in 0..MaxInfoDepots }

\* Depot.size (line 39): depot_data.get("size") or 0
DepotSize(depot_data) ==
    IF depot_data.size = <<>> THEN 0 ELSE depot_data.size[1]

\* the sum of the sizes of depots
RECURSIVE SumOfSizes(_)
SumOfSizes(depots) ==
    IF depots = <<>> THEN 0
    ELSE DepotSize(Head(depots)) + SumOfSizes(Tail(depots))

\* self.total_size of the Build: 0 after __init__ (line 79), else what the
\* last get_info left
TotalSize == IF output = <<>> THEN 0 ELSE output[Len(output)]

\* get_info (lines 91-99): self.total_size += depot.size for every depot
\* appended, from the value that total_size has
AfterGetInfo(total_size, depots, target_lang, bitness) ==
    total_size + SumOfSizes(GetInfo(depots, target_lang, bitness))

InitSize ==
    Called([depots : SizedDepots, target_lang : Languages,
            bitness : Bitnesses])

\* one more call of get_info on the Build
CallGetInfo ==
    /\ Len(output) < MaxInfoCalls
    /\ output' = Append(output, AfterGetInfo(TotalSize, input.depots,
                                             input.target_lang, input.bitness))
    /\ UNCHANGED << arguments, catalog, max_workers, run, depot_files,
                    secure_links_by_product, v1_secure_links_by_product,
                    futures, yielded, wk, fs, mode, tree, warned, resolver,
                    calls, failed_files, credentials, cdn, before, input >>

NextSize == CallGetInfo

SpecSize == InitSize /\ [][NextSize]_vars

(***************************************************************************)
(* Cloud saves (saves.py): one CloudStorageManager.sync run, from the      *)
(* local files found, the answer of get_auth_token, the list that          *)
(* get_cloud_files_list returned and the --timestamp.  output holds the    *)
(* files given to upload_file and to download_file.                        *)
(***************************************************************************)
\* files on one side of a sync
MaxSyncFiles == 2

\* update_ts of a SyncFile (lines 33-37, 40-49): None (<<>>: no
\* last_modified in the listing, or get_file_metadata raised), or a time
UpdateTimes == { <<>>, <<1>>, <<3>> }

\* the --timestamp of the last sync (line 168; 0.0 when not given)
SyncTimestamps == {0, 2}

\* the hash of a cloud file that holds nothing (lines 137, 358)
EmptyMd5 == "aadd86936a80ee8a369579c3926f1b3c"

\* local_files (lines 114-122): the files under the sync path
LocalFileLists ==
    UNION { { fs1 \in [1..m -> [relative_path : 1..MaxSyncFiles,
                                update_ts : UpdateTimes]] :
                \A i \in 1..m : fs1[i].relative_path = i } :
            m \in 0..MaxSyncFiles }

\* cloud_files (lines 236-260): the save files of the listing, or [] when
\* the request failed
CloudFileLists ==
    UNION { { fs1 \in [1..m -> [relative_path : 1..MaxSyncFiles,
                                md5 : {EmptyMd5, "hash"},
                                update_ts : UpdateTimes]] :
                \A i \in 1..m : fs1[i].relative_path = i } :
            m \in 0..MaxSyncFiles }

\* f.update_ts and f.update_ts > timestamp (lines 354, 362)
UpdatedSince(f, timestamp) ==
    /\ f.update_ts # <<>>
    /\ f.update_ts[1] # 0
    /\ f.update_ts[1] > timestamp

\* downloadable_cloud (line 137)
Downloadable(cloud_files) ==
    SelectSeq(cloud_files, LAMBDA f : f.md5 # EmptyMd5)

\* SyncClassifier.classify (lines 344-365): the lists that decide the
\* action
Classify(local, cloud, timestamp) ==
    [updated_local |-> SelectSeq(local, LAMBDA f : UpdatedSince(f, timestamp)),
     updated_cloud |-> SelectSeq(cloud, LAMBDA f :
                          f.md5 # EmptyMd5 /\ UpdatedSince(f, timestamp))]

\* (an action that looks at the local side first)
GetActionLocalFirst(classifier) ==
    IF Len(classifier.updated_local) > 0 THEN "UPLOAD"
    ELSE IF Len(classifier.updated_cloud) > 0 THEN "DOWNLOAD"
    ELSE "NONE"

\* SyncClassifier.get_action (lines 333-342)
GetAction(classifier) ==
    IF Len(classifier.updated_local) = 0 /\ Len(classifier.updated_cloud) > 0
    THEN "DOWNLOAD"
    ELSE IF Len(classifier.updated_local) > 0
            /\ Len(classifier.updated_cloud) = 0
    THEN "UPLOAD"
    ELSE IF Len(classifier.updated_local) = 0
            /\ Len(classifier.updated_cloud) = 0
    THEN "NONE"
    ELSE "CONFLICT"

\* what a sync run gives to upload_file and to download_file
Transfers(uploaded, downloaded) ==
    [uploaded |-> uploaded, downloaded |-> downloaded]

\* CloudStorageManager.sync (lines 125-189): no transfer when the token
\* cannot be had; every local file up when the cloud list is empty; every
\* downloadable cloud file down when there is no local file; else the
\* action of the classifier
Sync(authenticated, local_files, cloud_files, timestamp) ==
    LET classifier == Classify(local_files, cloud_files, timestamp)
        action == GetAction(classifier)
    IN  IF ~authenticated THEN Transfers(<<>>, <<>>)
        ELSE IF Len(local_files) > 0 /\ Len(cloud_files) = 0
        THEN Transfers(local_files, <<>>)
        ELSE IF Len(local_files) = 0 /\ Len(cloud_files) > 0
        THEN Transfers(<<>>, Downloadable(cloud_files))
        ELSE IF action = "DOWNLOAD"
        THEN Transfers(<<>>, classifier.updated_cloud)
        ELSE IF action = "UPLOAD"
        THEN Transfers(classifier.updated_local, <<>>)
        ELSE Transfers(<<>>, <<>>)

InitSync ==
    Called([authenticated : BOOLEAN, local_files : LocalFileLists,
            cloud_files : CloudFileLists, timestamp : SyncTimestamps])

NextSync ==
    Returns(Sync(input.authenticated, input.local_files, input.cloud_files,
                 input.timestamp))

SpecSync == InitSync /\ [][NextSync]_vars

(***************************************************************************)
(* Cloud saves (saves.py): one CloudStorageManager.download_file call,     *)
(* attempt by attempt.  input holds the retries argument, output the       *)
(* attempts made: the retries of each, what happened in it, and what the   *)
(* call did then.                                                          *)
(***************************************************************************)
\* retries=3 (line 288): sync calls download_file(f)
DefaultRetries == 3

\* what can happen in one attempt (lines 290-315): the response is OK and
\* the file is written (without the header of its time, with it, or with
\* one that cannot be read: that exception is caught at lines 314-315);
\* the response is not OK; or an exception: of the request, of os.makedirs
\* or open, of a read or write with a part of the file written
SaveWritten == {"ok", "ok, time set", "ok, time not set"}
SaveExceptions == {"request raised", "open raised", "write raised"}
SaveAnswers == SaveWritten \cup {"not ok"} \cup SaveExceptions

\* (a handler that tries again after a response that is not OK, too)
AfterAttemptNotOk(answer, retries) ==
    IF answer \in SaveWritten THEN "returns"
    ELSE IF retries > 1 THEN "retries"
    ELSE "returns"

\* lines 294-296, 317-322: after a response that is not OK the call logs
\* and returns; after an exception it calls itself with retries - 1 when
\* retries > 1, else it logs and returns; after the file is written it
\* returns
AfterAttempt(answer, retries) ==
    IF answer \in SaveExceptions /\ retries > 1 THEN "retries"
    ELSE "returns"

\* the retries argument of the next attempt: that of the call, then one
\* less for each attempt made
RetriesLeft == input.retries - Len(output)

\* the call is in progress: no attempt yet, or the last one is retried
Downloading ==
    IF output = <<>> THEN TRUE
    ELSE output[Len(output)].then = "retries"

InitSave == Called([retries : 0..DefaultRetries])

\* one attempt of download_file, and what follows it
SaveAttempt ==
    /\ Downloading
    /\ \E answer \in SaveAnswers :
          output' = Append(output,
                           [retries |-> RetriesLeft, answer |-> answer,
                            then |-> AfterAttempt(answer, RetriesLeft)])
    /\ UNCHANGED << arguments, catalog, max_workers, run, depot_files,
                    secure_links_by_product, v1_secure_links_by_product,
                    futures, yielded, wk, fs, mode, tree, warned, resolver,
                    calls, failed_files, credentials, cdn, before, input >>

NextSave == SaveAttempt

\* every request of the session is answered, or raises, in the end
SpecSave == InitSave /\ [][NextSave]_vars /\ WF_vars(NextSave)

(***************************************************************************)
(* The build of a download: download() (lines 35-41) with the list that    *)
(* get_builds returned and the --branch of the command line.               *)
(***************************************************************************)
MaxBuilds == 3

\* the 'branch' of a build, and the --branch of the command line: absent
\* (None), the empty string, or a name
Branches == { <<>>, <<"">>, <<"beta">>, <<"alpha">> }

\* Python's truth of a branch: None and '' are false
Truthy(branch) == branch # <<>> /\ branch # <<"">>

\* the items of the builds answer, newest first; build_id tells them apart
BuildLists ==
    UNION { { bs \in [1..m -> [branch : Branches, build_id : 1..MaxBuilds]] :
                \A i \in 1..m : bs[i].build_id = i } : m \in 0..MaxBuilds }

NoBuild == [branch |-> <<>>, build_id |-> 0]

\* line 41: next((b for b in items if not b.get('branch')), default)
RECURSIVE NextWithoutBranch(_, _)
NextWithoutBranch(items, default) ==
    IF items = <<>> THEN default
    ELSE IF ~Truthy(Head(items).branch) THEN Head(items)
    ELSE NextWithoutBranch(Tail(items), default)

\* lines 35-41: no items raise; otherwise the first build without a
\* branch, or the first build. self.branch (manager.py line 32) is not
\* read.
SelectBuild(items, branch) ==
    IF items = <<>> THEN [raised |-> TRUE, build |-> NoBuild]
    ELSE [raised |-> FALSE, build |-> NextWithoutBranch(items, items[1])]

InitBuild == Called([items : BuildLists, branch : Branches])

NextBuild == Returns(SelectBuild(input.items, input.branch))

SpecBuild == InitBuild /\ [][NextBuild]_vars

(***************************************************************************)
(* The shard path of a content hash: dl_utils.galaxy_path.  A text is the  *)
(* sequence of its pieces.                                                 *)
(***************************************************************************)
MaxHashLen == 5

\* the characters of a hash: two digits and the separator
HashChars == {"a", "b", "/"}

Hashes == UNION { [1..n -> HashChars] : n \in 0..MaxHashLen }

\* str.find: the index, from 0, of the first occurrence, or -1
Find(text, c) ==
    IF \E i \in DOMAIN text : text[i] = c
    THEN (CHOOSE i \in DOMAIN text :
              text[i] = c /\ \A j \in 1..(i - 1) : text[j] # c) - 1
    ELSE -1

\* text[lo:hi] for 0 <= lo <= hi: Python cuts the slice at the end of text
Slice(text, lo, hi) ==
    SubSeq(text, lo + 1, IF hi < Len(text) THEN hi ELSE Len(text))

\* (a shard path made of every hash)
GalaxyPathOfAny(manifest_hash) ==
    Slice(manifest_hash, 0, 2) \o <<"/">> \o Slice(manifest_hash, 2, 4)
        \o <<"/">> \o manifest_hash

\* dl_utils.py lines 62-66
GalaxyPath(manifest_hash) ==
    IF Find(manifest_hash, "/") = -1
    THEN Slice(manifest_hash, 0, 2) \o <<"/">> \o Slice(manifest_hash, 2, 4)
             \o <<"/">> \o manifest_hash
    ELSE manifest_hash

InitPath == Called(Hashes)

NextPath == Returns(GalaxyPath(input))

SpecPath == InitPath /\ [][NextPath]_vars

(***************************************************************************)
(* The chunk URL of a descriptor as a text: lines 222-244 of               *)
(* _try_download_chunk_with_links with dl_utils.merge_url_with_params.     *)
(* The pieces of a url_format are literals and the placeholders {path} and *)
(* {token}; parameters are the items of the dict in its order; the values  *)
(* of parameters have no braces.                                           *)
(***************************************************************************)
MaxPieces == 3

UrlFormats ==
    UNION { [1..n -> {"https://cdn/", "?t=", "{path}", "{token}"}] :
              n \in 0..MaxPieces }

\* "{" + key + "}"
Placeholder(key) == IF key = "path" THEN "{path}" ELSE "{token}"

\* the items of the parameters of a descriptor
ParameterLists ==
    { << <<"path", path>> >> : path \in { <<"/base">>, <<>> } }
    \cup { << <<"path", path>>, <<"token", <<"tok">> >> >> :
               path \in { <<"/base">>, <<>> } }
    \cup { << <<"token", <<"tok">> >>, <<"path", path>> >> :
               path \in { <<"/base">>, <<>> } }

\* the descriptors with url_format and parameters, and those with url
TextLinks ==
    [shape : {"url_format"}, url_format : UrlFormats,
     parameters : ParameterLists,
     endpoint_name : {"akamai_edgecast_proxy", "fastly"}, url : {<<>>}]
    \cup [shape : {"url"}, url_format : {<<>>},
          parameters : { << <<"path", <<>> >> >> },
          endpoint_name : {"fastly"}, url : { <<"https://cdn">>, <<>> }]

\* the hashes of the chunks: one without and one with a separator
UrlHashes == { <<"a", "b", "b", "a", "b">>, <<"a", "/", "b">> }

\* str.replace(old, new), where old is one piece
Replace(text, old, new) ==
    Flatten([i \in DOMAIN text |-> IF text[i] = old THEN new ELSE <<text[i]>>])

\* (a merge that replaces the first parameter only)
MergeFirstParameter(url_template, parameters) ==
    IF parameters = <<>> THEN url_template
    ELSE Replace(url_template, Placeholder(Head(parameters)[1]),
                 Head(parameters)[2])

\* dl_utils.py lines 69-74: one replace for each item of parameters, in
\* the order of the dict
RECURSIVE MergeUrlWithParams(_, _)
MergeUrlWithParams(url_template, parameters) ==
    IF parameters = <<>> THEN url_template
    ELSE MergeUrlWithParams(
             Replace(url_template, Placeholder(Head(parameters)[1]),
                     Head(parameters)[2]),
             Tail(parameters))

\* lines 231-236: endpoint["parameters"]["path"] with "/" and the shard
\* path appended, and the same text for Akamai as for the others
WithChunkPath(secure_link, galaxy_chunk_path) ==
    [i \in DOMAIN secure_link.parameters |->
        IF secure_link.parameters[i][1] = "path"
        THEN IF secure_link.endpoint_name = "akamai_edgecast_proxy"
             THEN << "path", secure_link.parameters[i][2] \o <<"/">>
                                 \o galaxy_chunk_path >>
             ELSE << "path", secure_link.parameters[i][2]
                                 \o (<<"/">> \o galaxy_chunk_path) >>
        ELSE secure_link.parameters[i]]

\* lines 222-244: chunk_url of a dict with url_format and parameters, or
\* with url
ChunkUrl(secure_link, chunk_md5) ==
    IF secure_link.shape = "url_format"
    THEN MergeUrlWithParams(secure_link.url_format,
                            WithChunkPath(secure_link, GalaxyPath(chunk_md5)))
    ELSE secure_link.url \o <<"/">> \o GalaxyPath(chunk_md5)

InitUrl == Called([secure_link : TextLinks, chunk_md5 : UrlHashes])

NextUrl == Returns(ChunkUrl(input.secure_link, input.chunk_md5))

SpecUrl == InitUrl /\ [][NextUrl]_vars

\* a file item with a path and m chunks
Item(path, m) ==
    [dict |-> TRUE, path |-> path,
     chunks |-> [i \in 1..m |-> [md5 |-> ChunkHash(i)]],
     executable |-> FALSE]

(***************************************************************************)
(* The files of a depot: a pool of two threads, one or two depots of       *)
(* MaxItems files of one chunk each, and a CDN that serves every chunk.    *)
(* A step that can be taken is taken in the end: no thread stops for ever. *)
(***************************************************************************)
DepotFileItems == { Item(path, 1) : path \in Paths }

InitDepotFiles ==
    /\ arguments \in [workers_count : {<<DefaultWorkers>>},
                       file_pattern : {<<>>}]
    /\ catalog \in [depots : DepotLists([productId : {GameId},
                                          manifest : {TRUE}]),
                     links2 : {OneLinkEach(2)}, links1 : {NoLinks}]
    /\ Managed
    /\ credentials = Token
    /\ cdn = {"zlib"}
    /\ before = NoRun
    /\ input = <<>>
    /\ output = <<>>

NextDepotFiles ==
    \/ ResolveManifest
    \/ ResolveSecureLinks
    \/ StartPool
    \/ AsCompleted
    \/ ExitPool
    \/ \E w \in Workers : StartDepot(w)
    \/ \E w \in Workers : FetchDepotManifest(w, {MaxItems})
    \/ \E w \in Workers : DownloadFile(w, DepotFileItems, TRUE)
    \/ \E w \in Workers : OpenFile(w, TRUE)
    \/ \E w \in Workers : WriteFile(w, TRUE)
    \/ \E w \in Workers : EndDepot(w)

SpecDepotFiles ==
    InitDepotFiles /\ [][NextDepotFiles]_vars /\ WF_vars(NextDepotFiles)

(***************************************************************************)
(* Two runs, one after the other, into the same install directory: the     *)
(* same builds, manifest, depot listings and secure links both times, and  *)
(* a CDN that sends the same body for a chunk every time.  Each of two     *)
(* depots lists one file.                                                  *)
(***************************************************************************)
\* the listings of the two depots
Listings ==
    [1..MaxDepots -> { Item(path, m) : path \in Paths, m \in 1..MaxChunks }]

TwiceCatalogs ==
    [depots : { [d \in 1..MaxDepots |->
                    [productId |-> GameId, manifest |-> TRUE]] },
     links2 : {OneLinkEach(2)}, links1 : {NoLinks}, items : Listings]

TwiceArguments ==
    [workers_count : { <<n>> : n \in 1..DefaultWorkers }, file_pattern : {<<>>}]

InitTwice ==
    /\ arguments \in TwiceArguments
    /\ catalog \in TwiceCatalogs
    /\ Managed
    /\ credentials = Token
    /\ cdn \in { {"zlib"}, {"raw"} }
    /\ before = NoRun
    /\ input = <<>>
    /\ output = <<>>

\* the run ended without a failure: download() returned, no file failed
\* and no depot was skipped
Clean == run = "Completed" /\ failed_files = 0 /\ warned = {}

\* the program is started again after a run that returned: a new
\* V2Manager (lines 17-27) with the install directory as the run left it
Rerun ==
    /\ run = "Completed"
    /\ ~before.ran
    /\ before' = [ran |-> TRUE, clean |-> Clean, fs |-> fs,
                  links |-> << secure_links_by_product,
                               v1_secure_links_by_product >>]
    /\ run' = "ResolvingManifest"
    /\ depot_files' = <<>>
    /\ secure_links_by_product' = NoLinks
    /\ v1_secure_links_by_product' = NoLinks
    /\ futures' = <<>>
    /\ yielded' = {}
    /\ wk' = [w \in Workers |-> IdleWorker]
    /\ warned' = {}
    /\ resolver' = NoCall
    /\ calls' = [pair \in Pairs |-> 0]
    /\ failed_files' = 0
    /\ UNCHANGED << arguments, catalog, max_workers, fs, mode, tree,
                    credentials, cdn, input, output >>

\* the file of the depot that worker w runs
Listed(w) == IF wk[w].task = 0 THEN {} ELSE { catalog.items[wk[w].task] }

NextTwice ==
    \/ ResolveManifest
    \/ ResolveSecureLinks
    \/ StartPool
    \/ AsCompleted
    \/ ExitPool
    \/ \E w \in Workers : StartDepot(w)
    \/ \E w \in Workers : FetchDepotManifest(w, {1})
    \/ \E w \in Workers : DownloadFile(w, Listed(w), FALSE)
    \/ \E w \in Workers : OpenFile(w, FALSE)
    \/ \E w \in Workers : WriteFile(w, FALSE)
    \/ \E w \in Workers : EndDepot(w)
    \/ Rerun

SpecTwice == InitTwice /\ [][NextTwice]_vars

(***************************************************************************)
(* Directory and symlink entries: two depots that list one item each, a    *)
(* file of one chunk or an entry that has a path and no chunks (a          *)
(* DepotDirectory, with or without a trailing separator, or a DepotLink,   *)
(* dl/objects/v2.py lines 21-30).                                          *)
(***************************************************************************)
\* the paths of the entries: directories d and e/, link l
EntryPaths == {"d", "e/", "l"}

\* the items of the entries as _download_file reads them: a path, and
\* nothing under 'chunks'
EntryItems ==
    { [dict |-> TRUE, path |-> path, chunks |-> <<>>, executable |-> FALSE] :
        path \in EntryPaths }

EntryCatalogs ==
    [depots : { [d \in 1..MaxDepots |->
                    [productId |-> GameId, manifest |-> TRUE]] },
     links2 : {OneLinkEach(2)}, links1 : {NoLinks},
     items : [1..MaxDepots -> EntryItems \cup {Item("a", 1)}]]

InitEntries ==
    /\ arguments \in TwiceArguments
    /\ catalog \in EntryCatalogs
    /\ Managed
    /\ credentials = Token
    /\ cdn = {"zlib"}
    /\ before = NoRun
    /\ input = <<>>
    /\ output = <<>>

NextEntries ==
    \/ ResolveManifest
    \/ ResolveSecureLinks
    \/ StartPool
    \/ AsCompleted
    \/ ExitPool
    \/ \E w \in Workers : StartDepot(w)
    \/ \E w \in Workers : FetchDepotManifest(w, {1})
    \/ \E w \in Workers : DownloadFile(w, Listed(w), FALSE)
    \/ \E w \in Workers : OpenFile(w, FALSE)
    \/ \E w \in Workers : WriteFile(w, FALSE)
    \/ \E w \in Workers : EndDepot(w)

SpecEntries == InitEntries /\ [][NextEntries]_vars

(***************************************************************************)
(* Properties.                                                             *)
(***************************************************************************)
\* the worker runs a depot task
Busy(w) == wk[w].task # 0

\* the product whose links the worker's chunk fetches use
WorkerProduct(w) == DepotProduct(wk[w].task)

\* the requests of a log that went to one tier, in the order issued
TierLog(log, tier) == SelectSeq(log, LAMBDA e : e.tier = tier)

\* C1: every file write of a worker that puts all its bytes into the file
\* writes exactly the concatenation of the chunk_data of the file item's
\* chunks in the order of its chunks list, whatever the other workers do
\* in between.
C1_WrittenInListedOrder ==
    [][ \A w \in Workers :
          ( /\ wk[w].pc = "writing"
            /\ wk'[w] # wk[w]
            /\ Len(fs'[wk[w].item.path]) = Len(wk[w].file_data) )
          => /\ fs'[wk[w].item.path] = Flatten(wk[w].fetched)
             /\ Len(wk[w].fetched) = Len(wk[w].item.chunks)
             /\ \A i \in DOMAIN wk[w].fetched :
                   wk[w].fetched[i] = ChunkBytes(wk[w].item.chunks[i].md5) ]_vars

\* C1 witness: a file of two chunks is on disk, in order, while both
\* workers run depot tasks.
C1_Witness ==
    /\ \E p \in Paths : fs[p] = ChunkBytes(ChunkHash(1)) \o ChunkBytes(ChunkHash(2))
    /\ max_workers = DefaultWorkers
    /\ \A w \in 1..max_workers : Busy(w)

\* the requests of one tier follow the list: each names the descriptor at
\* its position, the first is the first descriptor that gets a request,
\* each next one the next such descriptor after a failed request, none
\* follows a 200, and there are no more requests than descriptors
InListOrder(log, tier, links) ==
    LET tl == TierLog(log, tier)
    IN  /\ Len(tl) <= Len(links)
        /\ \A j \in 1..Len(tl) :
              /\ tl[j].li \in 1..Len(links)
              /\ tl[j].link = links[tl[j].li]
        /\ Len(tl) > 0 => tl[1].li = FirstUsable(links, 1)
        /\ \A j \in 1..(Len(tl) - 1) :
              /\ tl[j].status # HttpOk
              /\ tl[j].li < tl[j + 1].li
              /\ tl[j + 1].li = FirstUsable(links, tl[j].li + 1)

\* after a failed request that was not the tier's last, the fetch is at
\* the next descriptor of the same tier
MovesOn(r, links) ==
    LET last == r.log[Len(r.log)]
    IN  ( /\ r.log # <<>>
          /\ ~r.done
          /\ last.status # HttpOk
          /\ FirstUsable(links[last.tier], last.li + 1) # 0 )
        => /\ r.pc = "try"
           /\ r.tier = last.tier
           /\ r.li = FirstUsable(links[last.tier], last.li + 1)

\* C2: within one tier the endpoints are requested in list order, each at
\* most once, the next one after a status other than 200 or a transport
\* error, none after a 200, and never more than the list has entries.
C2_TierInListOrder ==
    \A w \in Workers : Busy(w) =>
        /\ InListOrder(wk[w].log, "V2", LinksV2(WorkerProduct(w)))
        /\ InListOrder(wk[w].log, "V1", LinksV1(WorkerProduct(w)))
        /\ MovesOn(wk[w], [V2 |-> LinksV2(WorkerProduct(w)),
                           V1 |-> LinksV1(WorkerProduct(w))])

\* C2 witness: of a list [A, B], A answered 404 and B answered 200; the
\* fetch returned B's bytes after these two requests.
C2_Witness ==
    \E w \in Workers :
        /\ Busy(w)
        /\ Len(LinksV2(WorkerProduct(w))) = 2
        /\ Len(wk[w].log) = 2
        /\ wk[w].log[1].tier = "V2" /\ wk[w].log[1].li = 1
        /\ wk[w].log[1].status = HttpNotOk
        /\ wk[w].log[2].tier = "V2" /\ wk[w].log[2].li = 2
        /\ wk[w].log[2].status = HttpOk
        /\ wk[w].done
        /\ wk[w].result = ChunkData(wk[w].log[2].body)
        /\ wk[w].result # <<>>

\* the request did not yield chunk bytes: no 200, or a 200 with nothing in it
Failed(e) == e.status # HttpOk \/ ChunkData(e.body) = <<>>

\* C3, as claimed: a generation-1 endpoint is requested only when every
\* generation-2 candidate (every descriptor a URL can be built for) has
\* been requested and has failed; none is still untried.
C3_V1OnlyAfterAllV2Failed ==
    \A w \in Workers : Busy(w) =>
        ( (\E j \in DOMAIN wk[w].log : wk[w].log[j].tier = "V1")
          => \A i \in DOMAIN LinksV2(WorkerProduct(w)) :
                Usable(LinksV2(WorkerProduct(w))[i])
                => \E j \in DOMAIN wk[w].log :
                      /\ wk[w].log[j].tier = "V2"
                      /\ wk[w].log[j].li = i
                      /\ Failed(wk[w].log[j]) )

\* secure-link resolution gave the depot's product no generation-2 link
\* and at least one generation-1 link
OnlyGen1Resolved(w) ==
    /\ Busy(w)
    /\ catalog.links2[WorkerProduct(w)] = <<>>
    /\ catalog.links1[WorkerProduct(w)] # <<>>

C5_Ok200EndsTheFetch ==
    \A w \in Workers : Busy(w) =>
        \A j \in DOMAIN wk[w].log :
            wk[w].log[j].status = HttpOk
            => /\ j = Len(wk[w].log)
               /\ wk[w].done
               /\ wk[w].result = ChunkData(wk[w].log[j].body)
               /\ wk[w].fetched # <<>>
               /\ wk[w].fetched[Len(wk[w].fetched)] = ChunkData(wk[w].log[j].body)

\* the number of descriptors of a list that get a request
Candidates(links) == Cardinality({ i \in DOMAIN links : Usable(links[i]) })

\* every candidate of both tiers was requested for the chunk and failed
Exhausted(w) ==
    /\ wk[w].log # <<>>
    /\ \A j \in DOMAIN wk[w].log : wk[w].log[j].status # HttpOk
    /\ Len(TierLog(wk[w].log, "V2")) = Candidates(LinksV2(WorkerProduct(w)))
    /\ Len(TierLog(wk[w].log, "V1")) = Candidates(LinksV1(WorkerProduct(w)))

\* the requests of a chunk are bounded by the candidates of the two tiers,
\* and when all of them failed, the fetch has returned b'' and the worker
\* is past the file
BoundedThenFailed(w) ==
    /\ Len(TierLog(wk[w].log, "V2")) <= Candidates(LinksV2(WorkerProduct(w)))
    /\ Len(TierLog(wk[w].log, "V1")) <= Candidates(LinksV1(WorkerProduct(w)))
    /\ Exhausted(w) =>
          /\ wk[w].done
          /\ wk[w].result = <<>>
          /\ wk[w].pc \in {"item", "return"}

\* a step never goes back: a failed chunk fetch leaves the file for a
\* later item or the end of the listing, the item and chunk positions of
\* a task never decrease, and a depot task that was taken is not taken again
NotAgain(w) ==
    /\ ( Busy(w) /\ wk[w].pc = "try" /\ wk'[w].done /\ wk'[w].result = <<>> )
       => /\ wk'[w].task = wk[w].task
          /\ \/ wk'[w].pc = "item" /\ wk'[w].idx > wk[w].idx
             \/ wk'[w].pc = "return" /\ wk[w].idx = wk[w].n
    /\ ( Busy(w) /\ wk'[w].task = wk[w].task )
       => /\ wk'[w].idx >= wk[w].idx
          /\ wk'[w].idx = wk[w].idx /\ wk[w].pc = "try" => wk'[w].k >= wk[w].k
    /\ \A d \in DOMAIN futures :
          futures[d] # "pending" => futures'[d] # "pending"

\* C6: a chunk gets at most as many requests as the two tiers have
\* candidates; when all of them failed the fetch reports failure, and
\* neither the chunk nor its file is attempted again in the run.
C6_FailsAfterBoundedRequests ==
    /\ [](\A w \in Workers : Busy(w) => BoundedThenFailed(w))
    /\ [][\A w \in Workers : NotAgain(w)]_vars

\* C6 witness: two generation-2 and two generation-1 endpoints all failed
\* for a chunk; after these four requests the fetch returned b''.
C6_Witness ==
    \E w \in Workers :
        /\ Busy(w)
        /\ Exhausted(w)
        /\ Len(wk[w].log) = 4
        /\ wk[w].done
        /\ wk[w].result = <<>>

\* the worker is in _download_file for an item of its depot
InFile(w) == Busy(w) /\ wk[w].pc \in {"item", "write", "writing"}

\* C7, as claimed: whatever happens while a worker processes a file item,
\* its depot task does not raise: the task stays running, so the remaining
\* items are attempted and the run is not aborted by it.
C7_FileFailureNeverAborts ==
    [][ \A w \in Workers :
          InFile(w) => futures'[wk[w].task] = "running" ]_vars

\* C8: when the manifest of a depot could not be fetched, decompressed or
\* parsed, download() never reports Completed: it is still running, or is
\* leaving the pool to raise, or has raised.
C8_ManifestFailureFailsRun ==
    (\E d \in DOMAIN futures : futures[d] = "ManifestError")
    => run \in {"Downloading", "Aborting", "Failed"}

\* C8 witness: the run has ended Failed, and the only exception of a task
\* was that of a depot manifest.
C8_Witness ==
    /\ run = "Failed"
    /\ \E d \in DOMAIN futures : futures[d] = "ManifestError"
    /\ \A d \in DOMAIN futures : futures[d] # "UnboundLocalError"

C10_FatalFailureCancels ==
    [][ run = "Aborting"
        => /\ \A d \in DOMAIN futures :
                 futures[d] = "pending" => futures'[d] = "pending"
           /\ fs' = fs ]_vars

\* the depot tasks that execute, and the workers that have a request out
\* or are about to send one
Executing == { d \in DOMAIN futures : futures[d] = "running" }

Requesting == { w \in Workers : wk[w].pc \in {"manifest", "item", "try"} }

\* C11: in every state the number of depot tasks that execute, and so the
\* number of workers with a request in flight, is at most max_workers;
\* max_workers is DefaultWorkers when no worker count is given, and is
\* neither above the given count nor above MaxThreads.
C11_AtMostMaxWorkersExecute ==
    /\ Cardinality(Executing) <= max_workers \/ Executing = {}
    /\ Cardinality({ w \in Workers : Busy(w) }) = Cardinality(Executing)
    /\ Cardinality(Requesting) <= Cardinality(Executing)
    /\ max_workers <= MaxThreads
    /\ arguments.workers_count = <<>> => max_workers = DefaultWorkers
    /\ arguments.workers_count # <<>> =>
          max_workers <= arguments.workers_count[1]

\* more than MaxThreads workers are asked for and more tasks than that are
\* submitted: MaxThreads of them execute and another one waits
C11_Witness ==
    /\ arguments.workers_count # <<>>
    /\ arguments.workers_count[1] > MaxThreads
    /\ Cardinality(Executing) = MaxThreads
    /\ Cardinality(Requesting) = MaxThreads
    /\ \E d \in DOMAIN futures : futures[d] = "pending"

\* the product ids the manifest refers to: the top-level one and the one
\* of every depot
Referenced ==
    ({GameId} \cup { catalog.depots[d].productId : d \in DOMAIN catalog.depots })
        \ {Absent}

\* the pool has been started, or a worker is in a depot task
PoolStarted == futures # <<>> \/ \E w \in Workers : Busy(w)

\* the call for a product and generation has been made and has returned,
\* and the map of the generation holds what it returned
Returned(product, gen) ==
    /\ calls[<<product, gen>>] >= 1
    /\ ~(resolver.at # "idle" /\ resolver.product = product
                              /\ resolver.gen = gen)
    /\ IF gen = 2
       THEN secure_links_by_product[product] = catalog.links2[product]
       ELSE v1_secure_links_by_product[product] = catalog.links1[product]

\* C12: whenever the pool has been started (no depot task, and so no chunk
\* request, exists before), secure-link resolution has been called and has
\* returned for generation 2 and for generation 1 of the top-level product
\* and of every product a depot of the manifest names.
C12_ResolvedBeforeFirstRequest ==
    PoolStarted =>
        /\ resolver.at = "idle"
        /\ \A product \in Referenced : \A gen \in {2, 1} :
              Returned(product, gen)

\* a worker is about to request the first chunk of a run whose depots are
\* of the main game and of a DLC
C12_Witness ==
    /\ Referenced = {GameId, DlcId}
    /\ \E w \in Workers : wk[w].pc = "item" /\ wk[w].idx = 1
    /\ \A w \in Workers : wk[w].pc \in {"idle", "manifest", "item"}
    /\ \A product \in Referenced : \A gen \in {2, 1} : Returned(product, gen)
    /\ \A path \in Paths : fs[path] = NoFile

\* download() has got past the loop over product_ids
PastResolution == run \in {"Downloading", "Aborting", "Completed"}

\* C13: in a run, download() calls the secure-link resolver at most once
\* for a product id and generation, and exactly once for each of them of a
\* referenced product before it starts the pool; the calls are made, and
\* the maps filled, by the coordinating thread while no pool exists: never
\* during a step of a pool worker.
C13_OneCallPerPairByCoordinator ==
    /\ [](\A pair \in Pairs : calls[pair] <= 1)
    /\ [](PastResolution =>
            \A pair \in Pairs :
                calls[pair] = (IF pair[1] \in Referenced THEN 1 ELSE 0))
    /\ [][ (\/ calls' # calls
            \/ resolver' # resolver
            \/ secure_links_by_product' # secure_links_by_product
            \/ v1_secure_links_by_product' # v1_secure_links_by_product)
           => /\ run = "ResolvingSecureLinks"
              /\ ~PoolStarted
              /\ wk' = wk ]_vars

\* the run has two products, got their four lists with one call each, and
\* its two workers are in the depot tasks
C13_Witness ==
    /\ run = "Downloading"
    /\ Referenced = {GameId, DlcId}
    /\ \A pair \in Pairs : calls[pair] = 1
    /\ secure_links_by_product = catalog.links2
    /\ catalog.links2 # NoLinks
    /\ \A w \in 1..DefaultWorkers : Busy(w)

\* every descriptor of a map is as the secure-link endpoint sent it
AsSent(links, answer) ==
    \A product \in ProductIds :
        links[product] \in {<<>>, answer[product]}

C15_ResolverNeverRaises ==
    /\ resolver.at # "raised"
    /\ run = "Failed" => depot_files = <<>> \/ PoolStarted

\* the state of the run as its caller can tell it: download() is in the
\* with block of the pool until every task has run
Phase(r) == IF r = "Aborting" THEN "Downloading" ELSE r

\* the order of the states of a run
Follows(from, to) ==
    \/ from = "ResolvingManifest" /\ to \in {"ResolvingSecureLinks", "Failed"}
    \/ from = "ResolvingSecureLinks" /\ to \in {"Downloading", "Failed"}
    \/ from = "Downloading" /\ to \in {"Completed", "Failed"}

\* no request for secure links, for a depot manifest or for a chunk has
\* been made, and nothing has been written
NothingRequested ==
    /\ \A pair \in Pairs : calls[pair] = 0
    /\ resolver.at = "idle"
    /\ ~PoolStarted
    /\ warned = {}
    /\ \A path \in Paths : fs[path] = NoFile

\* C16: the run goes from ResolvingManifest to ResolvingSecureLinks to
\* Downloading in that order, and from any of them to Failed, or from
\* Downloading to Completed; Completed and Failed are final, and in them
\* no depot task runs.  A run without build manifest goes from
\* ResolvingManifest to Failed, and has made no secure-link request, no
\* depot-manifest request, no chunk request.
C16_StatesInOrder ==
    /\ [][ Phase(run') # Phase(run) => Follows(Phase(run), Phase(run')) ]_vars
    /\ [][ (run \in {"Completed", "Failed"}) => vars' = vars ]_vars
    /\ [](run \in {"Completed", "Failed"} => \A w \in Workers : ~Busy(w))
    /\ [][ run = "ResolvingManifest" /\ depot_files' = <<>> /\ run' # run
             => run' = "Failed" ]_vars
    /\ [](depot_files = <<>> => NothingRequested)

\* the build manifest could not be had: the run has failed at once
C16_Witness ==
    /\ run = "Failed"
    /\ depot_files = <<>>
    /\ NothingRequested

\* the content of a file of m chunks, all of them fetched
WholeFile(m) == Flatten([i \in 1..m |-> ChunkBytes(ChunkHash(i))])

\* C17: in every state (a run can be stopped in any) a destination path
\* holds no file, or the whole content of a file: never a part of it.
C17_OnlyWholeFilesAtDestination ==
    \A path \in Paths :
        \/ fs[path] = NoFile
        \/ \E m \in 1..MaxChunks : fs[path] = WholeFile(m)

\* the last file of worker w was assembled and written, and no step of
\* it failed
Assembled(w) == wk[w].written /\ ~wk[w].failed

\* C18: once a file is assembled and written, its destination has the
\* executable bit exactly when the file item has the executable flag.
C18_ExecutableBitIffFlag ==
    \A w \in Workers :
        Assembled(w) => mode[wk[w].item.path] = wk[w].item.executable

\* C19: a run that completed with failed files gives its caller another
\* outcome than a run in which every file succeeded (and both another
\* than a run that failed).
C19_OutcomeTellsFailedFiles ==
    /\ Outcome("Completed") # Outcome("Failed")
    /\ run = "Completed" /\ failed_files > 0
          => Outcome(run) # Outcome("Completed")

\* the path of the item is tested against a pattern, and has not got it
Filtered(file_info) ==
    /\ arguments.file_pattern # <<>>
    /\ file_info.path # ""
    /\ ~Contains(PathText(file_info.path), arguments.file_pattern)

\* worker w goes through _download_file in this step, for the item that
\* its frame has after the step
FileStep(w) == wk[w].pc = "item" /\ wk'[w] # wk[w] /\ wk'[w].pc # "idle"

\* C20: with --file-pattern set, _download_file for an item whose path has
\* not got the pattern ends without a chunk fetched or failed, without a
\* write and without a failure counted, and no file is ever at a path
\* without the pattern; for an item whose path has got it,
\* _download_file ends as it can end when no pattern is set.
C20_FilterSkipsBeforeFetching ==
    /\ [][ \A w \in Workers : FileStep(w) =>
             IF Filtered(wk'[w].item)
             THEN /\ wk'[w].fetched = <<>>
                  /\ ~wk'[w].failed
                  /\ wk'[w].pc \in {"item", "return"}
                  /\ fs' = fs
                  /\ failed_files' = failed_files
             ELSE \E makedirs \in {"ok", "OSError"} :
                     wk'[w] \in Finals(FirstFrame(wk[w], wk'[w].item,
                                                  makedirs, <<>>)) ]_vars
    /\ [](\A w \in Workers :
            wk[w].pc \in {"write", "writing"} => ~Filtered(wk[w].item))
    /\ [](\A path \in Paths :
            fs[path] # NoFile => Matches(arguments.file_pattern, path))

\* with the pattern of one path, the file of that path has been written
\* and the item of the other path, which has chunks, has been skipped
C20_Witness ==
    /\ arguments.file_pattern = <<"a">>
    /\ fs["a"] = WholeFile(MaxChunks)
    /\ fs["b"] = NoFile
    /\ \E w \in Workers :
          /\ wk[w].pc = "return"
          /\ wk[w].item.path = "b"
          /\ wk[w].item.chunks # <<>>
          /\ wk[w].fetched = <<>>

\* the depot is for the target: a language and a bitness
Compatible(depot, target) ==
    /\ CheckLanguage(depot.languages, target[1])
    /\ CheckBitness(depot.osBitness, target[2])

\* a task has been submitted for the depot
Enqueued(d) == d \in DOMAIN futures \/ \E w \in Workers : wk[w].task = d

\* C21: the run is for a target (a language and a bitness), and a depot
\* that is not for the target is never enqueued: no task is submitted for
\* it, so no request is made and no file is written for it.
C21_IncompatibleDepotsNotEnqueued ==
    \E target \in Languages \X Bitnesses :
        \A d \in DOMAIN depot_files :
            ~Compatible(depot_files[d], target) => ~Enqueued(d)

\* both resolutions returned no endpoint for the product
NoLinksOf(product) ==
    /\ secure_links_by_product[product] = <<>>
    /\ v1_secure_links_by_product[product] = <<>>

\* the file item has a path and chunks
HasChunks(file_info) == file_info.path # "" /\ file_info.chunks # <<>>

\* the file of the frame failed: no chunk of it was obtained and it was not
\* written
FailedWhole(r) ==
    /\ r.failed
    /\ r.fetched = <<>>
    /\ ~r.written
    /\ r.pc \in {"item", "return"}

\* the step is _download_file of worker w, for a file with chunks of the
\* product
FileStepOf(w, product) ==
    /\ FileStep(w)
    /\ DepotProduct(wk[w].task) = product
    /\ HasChunks(wk'[w].item)

Linkless(product) ==
    /\ NoLinksOf(product)
    /\ product = GameId \/ secure_links_by_product[GameId] = <<>>

\* the chunks of the product are requested from an endpoint that answers
\* every request with the compressed chunk
Served(product) ==
    /\ cdn = {"zlib"}
    /\ \/ secure_links_by_product[product] # <<>>
       \/ secure_links_by_product[GameId] # <<>>
       \/ v1_secure_links_by_product[product] # <<>>

Qualifies(build, branch) ==
    IF Truthy(branch) THEN build.branch = branch ELSE ~Truthy(build.branch)

\* the first build that qualifies, or the first build when none does
Selected(items, branch) ==
    IF \E i \in DOMAIN items : Qualifies(items[i], branch)
    THEN items[CHOOSE i \in DOMAIN items :
                   /\ Qualifies(items[i], branch)
                   /\ \A j \in 1..(i - 1) : ~Qualifies(items[j], branch)]
    ELSE items[1]

\* C23: the build selected from a list that is not empty is the first
\* build whose branch is empty or unset when no branch is requested, the
\* first build of the requested branch when one is, and the first build of
\* the list when no build qualifies.
C23_BuildOfRequestedBranch ==
    output # <<>> /\ ~output[1].raised
        => output[1].build = Selected(input.items, input.branch)

\* C24: no request for a chunk carries the Authorization header, although
\* the session of the ApiHandler holds a token and sent it with every
\* secure-link request before.
C24_NoBearerTokenToCdn ==
    \A w \in Workers : \A i \in DOMAIN wk[w].log :
        "Authorization" \notin wk[w].log[i].headers

\* chunk requests went to endpoints of both generations, after the
\* resolver had asked with the token for both generations
C24_Witness ==
    /\ credentials = Token
    /\ \E pair \in Pairs : pair[2] = 2 /\ calls[pair] > 0
    /\ \E pair \in Pairs : pair[2] = 1 /\ calls[pair] > 0
    /\ \E w \in Workers :
          /\ Len(wk[w].log) > 1
          /\ wk[w].log[1].tier = "V2"
          /\ wk[w].log[Len(wk[w].log)].tier = "V1"
          /\ \A i \in DOMAIN wk[w].log :
                wk[w].log[i].headers = {"User-Agent"}

\* the characters of a text from position lo to position hi, as far as
\* the text has them
Part(text, lo, hi) ==
    [i \in 1..(IF Len(text) < lo THEN 0
               ELSE IF Len(text) < hi THEN Len(text) - lo + 1
               ELSE hi - lo + 1) |-> text[lo + i - 1]]

\* C25: the shard path of a hash without "/" is its first two characters,
\* "/", its third and fourth characters, "/", and the hash; the shard path
\* of a hash with a "/" is the hash.
C25_ShardPath ==
    output # <<>> =>
        IF \E i \in DOMAIN input : input[i] = "/"
        THEN output[1] = input
        ELSE output[1] = Part(input, 1, 2) \o <<"/">> \o Part(input, 3, 4)
                             \o <<"/">> \o input

\* the shard path of abbab is ab/ba/abbab
C25_Witness ==
    /\ input = <<"a", "b", "b", "a", "b">>
    /\ output = << <<"a", "b", "/", "b", "a", "/", "a", "b", "b", "a", "b">> >>

\* the value of a parameter of a descriptor, which has it
ValueOf(secure_link, key) ==
    secure_link.parameters[CHOOSE i \in DOMAIN secure_link.parameters :
                               secure_link.parameters[i][1] = key][2]

\* the descriptor has the parameter
HasKey(secure_link, key) ==
    \E i \in DOMAIN secure_link.parameters :
        secure_link.parameters[i][1] = key

\* what stands in the URL for a piece of the url_format
Substituted(secure_link, chunk_md5, piece) ==
    IF piece = "{path}"
    THEN ValueOf(secure_link, "path") \o <<"/">> \o GalaxyPath(chunk_md5)
    ELSE IF piece = "{token}" /\ HasKey(secure_link, "token")
    THEN ValueOf(secure_link, "token")
    ELSE << piece >>

\* C26: the chunk URL of a descriptor with url_format and parameters is
\* the url_format with every {path} replaced by the path parameter, "/"
\* and the shard path of the hash, and every other placeholder that has a
\* parameter replaced by its value; the chunk URL of a descriptor with url
\* is the url, "/" and the shard path.
C26_ChunkUrl ==
    output # <<>> =>
        IF input.secure_link.shape = "url_format"
        THEN output[1] =
                 Flatten([i \in DOMAIN input.secure_link.url_format |->
                     Substituted(input.secure_link, input.chunk_md5,
                                 input.secure_link.url_format[i])])
        ELSE output[1] = input.secure_link.url \o <<"/">>
                             \o GalaxyPath(input.chunk_md5)

\* https://cdn/{path} with path /base and hash abbab gives
\* https://cdn//base/ab/ba/abbab
C26_Witness ==
    /\ input.secure_link.shape = "url_format"
    /\ input.secure_link.url_format = <<"https://cdn/", "{path}">>
    /\ ValueOf(input.secure_link, "path") = <<"/base">>
    /\ input.chunk_md5 = <<"a", "b", "b", "a", "b">>
    /\ output = << <<"https://cdn/", "/base", "/", "a", "b", "/", "b", "a",
                     "/", "a", "b", "b", "a", "b">> >>

\* C27: after a second run that ended without a failure, against the
\* directory that a first run without a failure left, with the same
\* manifest, links and CDN answers, the secure links (from which, with the
\* hashes of the manifest, the chunk URLs are made) are those of the first
\* run and every file has the bytes it had after the first run.
C27_SecondRunLeavesSameFiles ==
    before.ran /\ before.clean /\ Clean
        => /\ before.links = << secure_links_by_product,
                                v1_secure_links_by_product >>
           /\ fs = before.fs

\* worker w has the destination file of its item open for writing
Writing(w) == wk[w].pc = "writing"

\* C28: no two workers have the same destination path open for writing:
\* the paths that a worker writes are those of no other worker, also when
\* two depots of the manifest list the same relative path.
C28_WorkersWriteDisjointPaths ==
    \A v, w \in Workers :
        v # w /\ Writing(v) /\ Writing(w)
            => wk[v].item.path # wk[w].item.path

\* the depot has the target language or "*" among its languages, and no
\* osBitness or the requested one
CompatibleWith(depot, target_lang, bitness) ==
    /\ \E i \in DOMAIN depot.languages :
          depot.languages[i] \in {target_lang, "*"}
    /\ depot.osBitness \in {NoBitness, bitness}

\* C29: get_info returns the compatible depots of the manifest and no
\* other, each once, in the order of the manifest; a depot without
\* languages is not among them.
C29_CompatibleDepotsInOrder ==
    output # <<>> =>
        LET depots == input.depots
            info == output[1]
        IN  /\ \A j \in DOMAIN info :
                  /\ info[j].manifest \in DOMAIN depots
                  /\ info[j] = depots[info[j].manifest]
                  /\ info[j].languages # <<>>
            /\ \A i \in DOMAIN depots :
                  CompatibleWith(depots[i], input.target_lang, input.bitness)
                      <=> \E j \in DOMAIN info : info[j].manifest = i
            /\ \A j, k \in DOMAIN info :
                  j < k => info[j].manifest < info[k].manifest

\* of a depot without languages and a depot for both languages and any
\* bitness, get_info for en-US and 64 bits has returned the second
C29_Witness ==
    /\ Len(input.depots) = MaxInfoDepots
    /\ input.target_lang = "en-US"
    /\ input.bitness = 64
    /\ input.depots[1].languages = <<>>
    /\ input.depots[Len(input.depots)].languages = <<"en-US", "de-DE">>
    /\ input.depots[Len(input.depots)].osBitness = NoBitness
    /\ output = << << input.depots[Len(input.depots)] >> >>

\* a thread of the pool is free and no depot task waits for one
FreeWorker ==
    /\ \E v \in 1..max_workers : wk[v].pc = "idle"
    /\ \A d \in DOMAIN futures : futures[d] # "pending"

\* two workers are in files of the same depot
TwoFilesOfADepot ==
    \E v, w \in Workers :
        v # w /\ InFile(v) /\ InFile(w) /\ wk[v].task = wk[w].task

EntryName(path) == IF path = "e/" THEN "e" ELSE path

\* C31: no request is made for a directory entry or a symlink entry, and
\* when the run has ended Completed, with every depot listing processed
\* and no file failed, the directory or link of every entry of the
\* listings is in the install directory.
C31_EntriesMaterialized ==
    /\ \A w \in Workers :
          wk[w].item.path \in EntryPaths
              => wk[w].fetched = <<>> /\ wk[w].log = <<>>
                     /\ wk[w].pc \notin {"try", "write", "writing"}
    /\ Clean =>
          \A d \in DOMAIN catalog.items :
              catalog.items[d].path \in EntryPaths
                  => EntryName(catalog.items[d].path) \in tree

\* the requests that a call of get_secure_link has made without an
\* answer of 200 are at least one when it is at "retry", at most two when
\* it is at "last", at most three when the exception has left it
Rank(at) ==
    IF at = "idle" THEN 0
    ELSE IF at = "retry" THEN 1
    ELSE IF at = "last" THEN 2
    ELSE 3

\* C32: every run ends, download() returning or raising; a request to the
\* secure-link endpoint that fails takes the call of get_secure_link one
\* step nearer to its end, which is the third failure at the latest, and
\* then the run has ended in Failed; get_secure_link is called once at
\* most for a product and generation.
C32_RunTerminates ==
    /\ <>[](run \in {"Completed", "Failed"})
    /\ [][ resolver' # resolver /\ resolver'.at # "idle"
             => /\ Rank(resolver'.at) > Rank(resolver.at)
                /\ resolver.at # "idle"
                     => /\ resolver'.product = resolver.product
                        /\ resolver'.gen = resolver.gen ]_vars
    /\ [](resolver.at = "raised" => run = "Failed")
    /\ [](\A pair \in Pairs : calls[pair] <= 1)

\* the call of get_secure_link for generation 1 has raised, after the
\* call for generation 2 had returned, and the run has ended in Failed
C32_Witness ==
    /\ resolver.at = "raised"
    /\ resolver.gen = 1
    /\ calls[<<resolver.product, 2>>] = 1
    /\ run = "Failed"

\* C33: a worker requests chunk k of a file only when the k-1 chunks
\* before it have been fetched, each with data, one after the other; and
\* the step in which a chunk fails (the chunk requested, or the next one
\* when it has no hash and so is not requested) ends the file: no later
\* chunk of it is requested and nothing is written.
C33_ChunksInTurn ==
    /\ [](\A w \in Workers :
            wk[w].pc = "try"
                => /\ wk[w].k \in DOMAIN wk[w].item.chunks
                   /\ Len(wk[w].fetched) = wk[w].k - 1
                   /\ \A i \in DOMAIN wk[w].fetched : wk[w].fetched[i] # <<>>)
    /\ [][ \A w \in Workers :
             wk[w].pc = "try" /\ wk'[w].pc = "try"
                 => /\ wk'[w].item = wk[w].item
                    /\ wk'[w].k \in {wk[w].k, wk[w].k + 1}
                    /\ wk'[w].k = wk[w].k + 1
                         => Len(wk'[w].fetched) = Len(wk[w].fetched) + 1 ]_vars
    /\ [][ \A w \in Workers :
             wk[w].pc = "try" /\ wk'[w].failed
                 => /\ wk'[w].pc \in {"item", "return"}
                    /\ \/ /\ wk'[w].k = wk[w].k
                          /\ wk'[w].fetched = wk[w].fetched
                       \/ /\ wk'[w].k = wk[w].k + 1
                          /\ wk[w].item.chunks[wk'[w].k].md5 = NoHash
                          /\ Len(wk'[w].fetched) = wk[w].k
                    /\ ~wk'[w].written
                    /\ fs' = fs ]_vars

\* the first of the two chunks of a file has failed after a request, and
\* the file has ended without a request for the second
C33_Witness ==
    \E w \in Workers :
        /\ wk[w].failed
        /\ Len(wk[w].item.chunks) = MaxChunks
        /\ wk[w].item.chunks[MaxChunks].md5 # NoHash
        /\ wk[w].k = 1
        /\ wk[w].log # <<>>
        /\ wk[w].fetched = <<>>
        /\ wk[w].pc \in {"item", "return"}

\* C34: when download() has returned (Completed) or raised (Failed), every
\* depot task that was submitted to the pool has finished, by returning or
\* by raising: no worker is in a task, so no chunk request is in flight,
\* and from then on no file is written, no access bit set and no request
\* made.
C34_TasksFinishedAtTheEnd ==
    /\ [](run \in {"Completed", "Failed"}
            => /\ \A d \in DOMAIN futures : Finished(d)
               /\ \A w \in Workers : wk[w] = IdleWorker)
    /\ [][ (run \in {"Completed", "Failed"})
             => /\ fs' = fs
                /\ mode' = mode
                /\ tree' = tree
                /\ calls' = calls
                /\ futures' = futures ]_vars

\* download() has raised what the task of one depot raised, and the task
\* of another depot, which as_completed had not handed out, has finished
\* before the raise left the pool
C34_Witness ==
    /\ run = "Failed"
    /\ \E d \in DOMAIN futures :
          /\ Raised(d)
          /\ d \in yielded
          /\ \E e \in DOMAIN futures \ yielded : futures[e] = "done"
    /\ \E path \in Paths : fs[path] # NoFile

\* a request of a chunk fetch that gave no chunk data: no answer, a status
\* other than 200, or 200 with a body that holds no byte of data
GaveNothing(request) ==
    \/ request.status # HttpOk
    \/ ChunkData(request.body) = <<>>

\* C35: a chunk fetch ends by returning, never by raising into
\* _download_file: while a request is out the task of the worker goes on
\* and its future gets no exception; a fetch whose requests all failed, or
\* that found no descriptor to request, has returned b'', and the file has
\* failed with it; descriptors of unknown shape get no request; and the
\* fetch of a chunk without a hash field has returned b'' without any
\* request.
C35_ChunkFetchNeverRaises ==
    /\ [][ \A w \in Workers :
             wk[w].pc = "try"
                 => /\ futures' = futures
                    /\ wk'[w].task = wk[w].task
                    /\ wk'[w].pc \in {"try", "write", "item", "return"} ]_vars
    /\ [](\A w \in Workers :
            wk[w].done
                => /\ \A i \in DOMAIN wk[w].log : Usable(wk[w].log[i].link)
                   /\ (\A i \in DOMAIN wk[w].log : GaveNothing(wk[w].log[i]))
                         <=> wk[w].result = <<>>
                   /\ wk[w].result = <<>>
                         => wk[w].failed /\ wk[w].pc \in {"item", "return"})
    /\ [](\A w \in Workers :
            /\ wk[w].failed
            /\ wk[w].k \in DOMAIN wk[w].item.chunks
            /\ wk[w].item.chunks[wk[w].k].md5 = NoHash
            => wk[w].done /\ wk[w].result = <<>> /\ wk[w].log = <<>>)

\* a worker whose generation-2 descriptors are one of unknown shape and
\* one that did not answer, and whose chunk fetch has returned b''
C35_Witness ==
    \E w \in Workers :
        /\ Busy(w)
        /\ Len(LinksV2(WorkerProduct(w))) = 2
        /\ ~Usable(LinksV2(WorkerProduct(w))[1])
        /\ wk[w].done
        /\ wk[w].result = <<>>
        /\ wk[w].log # <<>>
        /\ wk[w].log[1].li = 2
        /\ wk[w].log[1].status = TransportError
        /\ wk[w].failed

\* the fetch of the second chunk of a file, which has no hash field, has
\* returned b'' without a request, after the first chunk was fetched
HashlessChunkFailed ==
    \E w \in Workers :
        /\ wk[w].failed
        /\ wk[w].k = 2
        /\ wk[w].item.chunks[2].md5 = NoHash
        /\ Len(wk[w].fetched) = 1
        /\ wk[w].log = <<>>

\* the item has no path, or no chunks
NothingToFetch(file_info) == file_info.path = "" \/ file_info.chunks = <<>>

\* C36: _download_file for an item without path or without chunks makes
\* no chunk request, opens no file (what is at the destination stays as
\* it is, content and mode) and ends with the next item or the return of
\* the task: the task does not raise and the run goes on.  An item
\* without path is not counted as failed.
C36_EmptyItemsLeftAlone ==
    /\ [][ \A w \in Workers :
             FileStep(w) /\ NothingToFetch(wk'[w].item)
                 => /\ wk'[w].log = <<>>
                    /\ wk'[w].fetched = <<>>
                    /\ ~wk'[w].written
                    /\ wk'[w].pc \in {"item", "return"}
                    /\ fs' = fs
                    /\ mode' = mode
                    /\ futures' = futures
                    /\ run' = run
                    /\ wk'[w].item.path = ""
                          => /\ ~wk'[w].failed
                             /\ failed_files' = failed_files
                             /\ tree' = tree ]_vars
    /\ [](\A w \in Workers :
            wk[w].pc \in {"write", "writing"}
                => ~NothingToFetch(wk[w].item))

\* the file at a path has been written, then the task went through an
\* item of the same path without chunks: the file is as it was, and the
\* item is not counted as failed
C36_Witness ==
    /\ fs["a"] = WholeFile(MaxChunks)
    /\ failed_files = 0
    /\ \E w \in Workers :
          /\ wk[w].pc \in {"item", "return"}
          /\ wk[w].idx > 1
          /\ wk[w].item.path = "a"
          /\ wk[w].item.chunks = <<>>
          /\ ~wk[w].failed

\* C37: after every get_info call on a Build, the first and each later
\* one, total_size is the sum of the sizes of the depots of the manifest
\* that are compatible with the target.
C37_TotalSizeIsSumOfCompatible ==
    \A i \in DOMAIN output :
        output[i] = SumOfSizes(GetInfo(input.depots, input.target_lang,
                                       input.bitness))

\* the sync run has ended
Synced == output # <<>>

\* a local file is newer than the last sync
LocalNewer ==
    \E i \in DOMAIN input.local_files :
        UpdatedSince(input.local_files[i], input.timestamp)

\* a cloud file is newer than the last sync
CloudNewer ==
    \E i \in DOMAIN input.cloud_files :
        UpdatedSince(input.cloud_files[i], input.timestamp)

\* a cloud file that holds something is newer than the last sync
CloudContentNewer ==
    \E i \in DOMAIN input.cloud_files :
        /\ input.cloud_files[i].md5 # EmptyMd5
        /\ UpdatedSince(input.cloud_files[i], input.timestamp)

\* a sync run that transfers in one direction at most, with cloudNewer for
\* "a cloud file is newer": uploads only when no cloud file and a local
\* file is newer, or the cloud is empty; downloads only when no local file
\* and a cloud file is newer, or there is no local file; and with files on
\* both sides, nothing when both sides have a newer file or none has
OneDirection(cloudNewer) ==
    Synced =>
        LET up == output[1].uploaded # <<>>
            down == output[1].downloaded # <<>>
        IN  /\ ~(up /\ down)
            /\ up => \/ input.cloud_files = <<>>
                      \/ (~cloudNewer /\ LocalNewer)
            /\ down => \/ input.local_files = <<>>
                        \/ (~LocalNewer /\ cloudNewer)
            /\ /\ input.local_files # <<>>
               /\ input.cloud_files # <<>>
               /\ LocalNewer = cloudNewer
               => ~up /\ ~down

\* C38 as stated: a sync run never both uploads and downloads; it uploads
\* only when no cloud file and at least one local file is newer than the
\* last-sync timestamp (or the cloud is empty), downloads only in the
\* mirrored case, and transfers nothing when files on both sides are
\* newer or none are.
C38_OneDirectionByAnyCloudFile == OneDirection(CloudNewer)

\* C38, amended: the same, where the cloud files that count as newer are
\* those that hold something: a cloud file with the hash of empty content
\* is passed over by the classifier, and never downloaded.
C38_OneDirection ==
    /\ OneDirection(CloudContentNewer)
    /\ Synced => (\A i \in DOMAIN output[1].downloaded :
                     output[1].downloaded[i].md5 # EmptyMd5)

\* a run with files on both sides that has uploaded the one local file
\* that is newer, while the one cloud file that is newer holds nothing
C38_Witness ==
    /\ Synced
    /\ Len(input.local_files) = 2
    /\ Len(output[1].uploaded) = 1
    /\ input.cloud_files # <<>>
    /\ CloudNewer
    /\ ~CloudContentNewer

\* C39: download_file called with the default retries makes at most 3
\* attempts (with retries r, at most r, and one when r is less than 1);
\* every attempt but the last ended in an exception, so a response that
\* is not OK is never followed by another attempt; no attempt ends with
\* the call raising; and the call returns in the end.
C39_AtMostThreeAttempts ==
    /\ [](input.retries = DefaultRetries => Len(output) <= 3)
    /\ [](Len(output) <= IF input.retries < 1 THEN 1 ELSE input.retries)
    /\ [](\A i \in DOMAIN output :
            /\ i < Len(output) => output[i].answer \in SaveExceptions
            /\ output[i].answer = "not ok" => i = Len(output)
            /\ output[i].then \in {"retries", "returns"})
    /\ <>(~Downloading)

\* a call with the default retries has returned after its third attempt,
\* each of the three ended by an exception
C39_Witness ==
    /\ input.retries = DefaultRetries
    /\ Len(output) = 3
    /\ \A i \in DOMAIN output : output[i].answer \in SaveExceptions
    /\ output[3].then = "returns"

====
